---- MODULE Spec2Model ----
(***************************************************************************)
(* Production job optimizer: the greedy assignment policies (Batching,     *)
(* Bottleneck rebalance, Baseline FIFO), the constraint validator and the  *)
(* KPI calculation, as a state machine over one policy run; the pipeline   *)
(* of the orchestrator, which runs Batching and Bottleneck in turn,        *)
(* validates both and selects; and single calls of the small operations.  *)
(*                                                                         *)
(* A datetime.time value is a record [hour, minute]; time(h, m) raises     *)
(* ValueError outside 0..23 / 0..59, which the model keeps as the value    *)
(* ValueError.  The language-model calls of the agents return an opaque    *)
(* text that no scheduling decision reads; they are not modelled, and an   *)
(* explanation is kept as the part of its text the code itself writes.     *)
(***************************************************************************)
EXTENDS Integers, Sequences, FiniteSets, TLC

VARIABLES
    jobs,             \* the caller's job list (input)
    machines,         \* the caller's machine list (input)
    constraint,       \* the caller's Constraint (input)
    policy,           \* which policy this run executes
    pc,               \* position of the run
    all_jobs_sorted,  \* the processing order the policy computed
    idx,              \* index in all_jobs_sorted of the job being processed
    compatible,       \* candidate machine ids still to try for the current job
    current_time,     \* per-machine time cursor of the run
    current_product,  \* per-machine current product of the run
    machine_loads,    \* per-machine cumulative load of the run
    schedule,         \* the Schedule being built
    violations,       \* result of validate_schedule on the returned schedule
    last,             \* record of the last step of the run (history)
    dropped,          \* job ids the run left without assignment (history)
    state,            \* the OptimizationState of the orchestrator pipeline
    call              \* the last single call: operation, arguments, result

vars == << jobs, machines, constraint, policy, pc, all_jobs_sorted, idx,
           compatible, current_time, current_product, machine_loads,
           schedule, violations, last, dropped, state, call >>

-----------------------------------------------------------------------------
(* Bounds of the model *)

MaxJobs == 3
MaxDowntime == 2
MaxAssignments == 2
MaxCandidates == 2
MaxKpiAssignments == 3

-----------------------------------------------------------------------------
(* datetime.time *)

\* None, where the code holds it in place of a product type
None == "None"

\* the outcome of a time(...) call that raises ValueError
ValueError == [hour |-> -1, minute |-> -1]

\* an exception that leaves the call, instead of a result
Raised(error) == [raised |-> error]

Min(a, b) == IF a <= b THEN a ELSE b
Max(a, b) == IF a >= b THEN a ELSE b

\* datetime.time(hour, minute): raises ValueError unless 0 <= hour <= 23 and
\* 0 <= minute <= 59
time(h, m) ==
    IF h \in 0..23 /\ m \in 0..59 THEN [hour |-> h, minute |-> m] ELSE ValueError

\* t.hour * 60 + t.minute
Minutes(t) == t.hour * 60 + t.minute

\* comparison of two time objects (seconds are always 0)
TimeGT(a, b) == a.hour > b.hour \/ (a.hour = b.hour /\ a.minute > b.minute)

-----------------------------------------------------------------------------
(* Inputs *)

Job(id, product, ptime, due, prio, options) ==
    [job_id |-> id, product_type |-> product, processing_time |-> ptime,
     due_time |-> due, priority |-> prio, machine_options |-> options]

J1 == Job("J1", "P_A", 45, time(12, 0), "rush", {"M1", "M2"})
J2 == Job("J2", "P_A", 30, time(14, 0), "normal", {"M1", "M2"})
J3 == Job("J3", "P_B", 60, time(15, 0), "normal", {"M1"})
J4 == Job("J4", "P_B", 30, time(15, 30), "rush", {"M1", "M2"})
J5 == Job("J5", "P_A", 105, time(13, 0), "normal", {"M1"})
J6 == Job("J6", "P_A", 30, time(14, 0), "normal", {"M2"})

JobUniverse == {J1, J2, J3, J4, J5, J6}

DowntimeWindow(s, e) == [start_time |-> s, end_time |-> e]

D1 == DowntimeWindow(time(10, 0), time(11, 30))
D2 == DowntimeWindow(time(22, 40), time(23, 0))
D3 == DowntimeWindow(time(23, 0), time(23, 50))

DowntimeUniverse == {D1, D2, D3}

Machine(id, caps, dts) ==
    [machine_id |-> id, capabilities |-> caps, downtime_windows |-> dts]

\* sequences without repetition, of length 0..n, over the set S
InjSeqs(S, n) ==
    UNION { { s \in [1..k -> S] : \A i, j \in 1..k : i # j => s[i] # s[j] }
            : k \in 0..n }

DowntimeLists == InjSeqs(DowntimeUniverse, MaxDowntime)

MachineLists ==
    { << Machine("M1", {"P_A", "P_B"}, d) >> : d \in DowntimeLists }
    \cup
    UNION { { << Machine("M1", {"P_A", "P_B"}, d), Machine("M2", c, << >>) >>,
              << Machine("M2", c, << >>), Machine("M1", {"P_A", "P_B"}, d) >> }
            : d \in DowntimeLists, c \in { {"P_A", "P_B"}, {"P_A"} } }

\* setup_times is a dict keyed by the string "from->to"
ScenarioSetup ==
    ("P_A->P_A" :> 5) @@ ("P_A->P_B" :> 30) @@
    ("P_B->P_A" :> 30) @@ ("P_B->P_B" :> 5)

\* The objective weights are floats in the code (defaults 1.0, 0.5, 0.3);
\* the model keeps them in tenths, as integers.
Constraint(s, e, ot, st) ==
    [shift_start |-> s, shift_end |-> e, max_overtime_minutes |-> ot,
     setup_times |-> st,
     tardiness_weight |-> 10, setup_weight |-> 5, utilization_weight |-> 3]

DayShift == Constraint(time(8, 0), time(16, 0), 0, ScenarioSetup)
LateShift == Constraint(time(22, 30), time(23, 59), 0, << >>)

ConstraintUniverse == {DayShift, LateShift}

\* Further inputs: a job whose product_type is the empty string, machines
\* capable of it, and a setup matrix whose two directions differ and whose
\* entries are not the defaults
J7 == Job("J7", "", 30, time(14, 0), "rush", {"M1", "M2"})

DirectedSetup ==
    ("P_A->P_A" :> 5) @@ ("P_A->P_B" :> 40) @@
    ("P_B->P_A" :> 20) @@ ("P_B->P_B" :> 10)

DirectedShift == Constraint(time(8, 0), time(16, 0), 0, DirectedSetup)

FurtherJobUniverse == {J1, J3, J6, J7}

FurtherMachineLists ==
    { << Machine("M1", {"P_A", "P_B", ""}, d) >> : d \in DowntimeLists }
    \cup
    { << Machine("M1", {"P_A", "P_B", ""}, d), Machine("M2", {"P_A", "P_B", ""}, << >>) >>
      : d \in DowntimeLists }

JobLists == InjSeqs(JobUniverse, MaxJobs) \ { << >> }

Policies == {"batching", "bottleneck", "baseline"}

-----------------------------------------------------------------------------
(* Domain model *)

is_rush(job) == job.priority = "rush"

can_run_on(job, machine_id) == machine_id \in job.machine_options

can_produce(machine, product_type) == product_type \in machine.capabilities

overlaps_with(downtime, start, end) ==
    LET dt_start == Minutes(downtime.start_time)
        dt_end == Minutes(downtime.end_time)
        check_start == Minutes(start)
        check_end == Minutes(end)
    IN  ~ (check_end <= dt_start \/ check_start >= dt_end)

\* a lookup that falls back on the entry of the opposite direction
get_setup_time_symmetric(c, from_product, to_product) ==
    LET key == from_product \o "->" \o to_product
        back == to_product \o "->" \o from_product
    IN  IF key \in DOMAIN c.setup_times THEN c.setup_times[key]
        ELSE IF back \in DOMAIN c.setup_times THEN c.setup_times[back]
        ELSE IF from_product = to_product THEN 5 ELSE 30

\* key = f"{from_product}->{to_product}"; self.setup_times.get(key, default)
get_setup_time(c, from_product, to_product) ==
    LET key == from_product \o "->" \o to_product
    IN  IF from_product = to_product
        THEN IF key \in DOMAIN c.setup_times THEN c.setup_times[key] ELSE 5
        ELSE IF key \in DOMAIN c.setup_times THEN c.setup_times[key] ELSE 30

get_shift_duration_minutes(c) == Minutes(c.shift_end) - Minutes(c.shift_start)

\* a check that takes the end of a downtime window as still inside it
is_available_at_closed(machine, time_slot) ==
    LET slot_minutes == Minutes(time_slot)
    IN  ~ \E i \in DOMAIN machine.downtime_windows :
            /\ Minutes(machine.downtime_windows[i].start_time) <= slot_minutes
            /\ slot_minutes <= Minutes(machine.downtime_windows[i].end_time)

\* Machine.is_available_at: False at the first window with
\* dt_start <= slot_minutes < dt_end, True when the loop finds none
is_available_at(machine, time_slot) ==
    LET slot_minutes == Minutes(time_slot)
    IN  ~ \E i \in DOMAIN machine.downtime_windows :
            LET dt_start == Minutes(machine.downtime_windows[i].start_time)
                dt_end == Minutes(machine.downtime_windows[i].end_time)
            IN  dt_start <= slot_minutes /\ slot_minutes < dt_end

\* a validation that lets a processing time of 0 through
post_init_negative_only(job) ==
    IF job.priority \notin {"rush", "normal"} THEN Raised("ValueError")
    ELSE IF job.processing_time < 0 THEN Raised("ValueError")
    ELSE IF job.machine_options = {} THEN Raised("ValueError")
    ELSE job

\* Job.__post_init__ after the generated __init__: the Job, or ValueError
\* from the first check that fails (priority, processing_time, machine_options)
post_init(job) ==
    IF job.priority \notin {"rush", "normal"} THEN Raised("ValueError")
    ELSE IF job.processing_time <= 0 THEN Raised("ValueError")
    ELSE IF job.machine_options = {} THEN Raised("ValueError")
    ELSE job

-----------------------------------------------------------------------------
(* Sequences *)

Range(s) == { s[i] : i \in DOMAIN s }

RECURSIVE Concat(_)
\* concatenation of a sequence of sequences (list.extend in a loop)
Concat(ss) == IF ss = << >> THEN << >> ELSE Head(ss) \o Concat(Tail(ss))

RECURSIVE Sum(_)
\* sum(...) over a sequence of integers
Sum(s) == IF s = << >> THEN 0 ELSE Head(s) + Sum(Tail(s))

\* lexicographic order of two-component sort keys (Python tuple comparison)
KeyLess(a, b) == a[1] < b[1] \/ (a[1] = b[1] /\ a[2] < b[2])

\* list.sort(key=...) / sorted(..., key=...): a stable sort, ascending by key
SortedBy(s, Key(_)) ==
    LET n == Len(s)
        pos(i) == 1 + Cardinality({ j \in 1..n :
                         \/ KeyLess(Key(s[j]), Key(s[i]))
                         \/ (Key(s[j]) = Key(s[i]) /\ j < i) })
    IN  [p \in 1..n |-> s[CHOOSE i \in 1..n : pos(i) = p]]

\* str comparison of the job ids of the universe
JobIdRank(id) ==
    CASE id = "J1" -> 1 [] id = "J2" -> 2 [] id = "J3" -> 3
      [] id = "J4" -> 4 [] id = "J5" -> 5 [] id = "J6" -> 6 [] id = "J7" -> 7

-----------------------------------------------------------------------------
(* Schedule *)

\* Schedule(): assignments is a dict machine_id -> list, kept here as the
\* sequence of its items in insertion order
NoKPI == [computed |-> FALSE]

EmptySchedule == [assignments |-> << >>, kpis |-> NoKPI, explanation |-> ""]

JobAssignment(job, machine_id, start, end, setup) ==
    [job |-> job, machine_id |-> machine_id, start_time |-> start,
     end_time |-> end, setup_time_before |-> setup]

get_duration_minutes(a) == a.job.processing_time + a.setup_time_before

is_late(a) == TimeGT(a.end_time, a.job.due_time)

get_tardiness_minutes(a) ==
    IF ~ is_late(a) THEN 0
    ELSE Max(0, Minutes(a.end_time) - Minutes(a.job.due_time))

add_assignment(sched, a) ==
    LET items == sched.assignments
        at == { i \in DOMAIN items : items[i].machine_id = a.machine_id }
    IN  IF at = {}
        THEN [sched EXCEPT !.assignments =
                 Append(items, [machine_id |-> a.machine_id, jobs |-> << a >>])]
        ELSE LET i == CHOOSE i \in at : TRUE
             IN  [sched EXCEPT !.assignments[i].jobs = Append(@, a)]

get_machine_jobs(sched, machine_id) ==
    LET items == sched.assignments
        at == { i \in DOMAIN items : items[i].machine_id = machine_id }
    IN  IF at = {} THEN << >> ELSE items[CHOOSE i \in at : TRUE].jobs

get_all_jobs(sched) ==
    Concat([i \in DOMAIN sched.assignments |-> sched.assignments[i].jobs])

-----------------------------------------------------------------------------
(* Job ordering of the three policies *)

RushRank(job) == IF is_rush(job) THEN 0 ELSE 1

\* a sort key that looks at the due time only
BatchingKeyDueOnly(job) == << 0, Minutes(job.due_time) >>

\* a sort key that puts shorter jobs first
BottleneckKeyShortestFirst(job) == << RushRank(job), job.processing_time >>

\* batching_agent.py: key=lambda j: (0 if j.is_rush else 1, j.due_time)
BatchingKey(job) == << RushRank(job), Minutes(job.due_time) >>

\* bottleneck_agent.py: key=lambda j: (0 if j.is_rush else 1, -j.processing_time)
BottleneckKey(job) == << RushRank(job), 0 - job.processing_time >>

\* a sort key that looks at the priority only: the stable sort then keeps
\* jobs of one priority in the order of the input list
BaselineKeyArrival(job) == << RushRank(job), 0 >>

\* baseline_scheduler.py: key=lambda j: (0 if j.is_rush else 1, j.job_id)
BaselineKey(job) == << RushRank(job), JobIdRank(job.job_id) >>

\* the keys of product_groups in insertion order: product types in the order
\* of their first appearance in the job list
ProductOrder(js) ==
    LET first == { i \in DOMAIN js :
                     \A j \in 1..(i - 1) : js[j].product_type # js[i].product_type }
        nth(k) == CHOOSE i \in first :
                     Cardinality({ j \in first : j < i }) = k - 1
    IN  [k \in 1..Cardinality(first) |-> js[nth(k)].product_type]

\* product_groups[p] after the in-place sort of each group
ProductGroup(js, p) ==
    LET InGroup(j) == j.product_type = p
    IN  SortedBy(SelectSeq(js, InGroup), BatchingKey)

\* all_jobs_sorted of create_batched_schedule
BatchingOrder(js) ==
    LET po == ProductOrder(js)
    IN  Concat([k \in DOMAIN po |-> ProductGroup(js, po[k])])

\* remaining_jobs of rebalance_schedule after the sort
BottleneckOrder(js) == SortedBy(js, BottleneckKey)

\* sorted_jobs of BaselineScheduler.schedule
BaselineOrder(js) == SortedBy(js, BaselineKey)

PolicyOrder(p, js) ==
    CASE p = "batching" -> BatchingOrder(js)
      [] p = "bottleneck" -> BottleneckOrder(js)
      [] p = "baseline" -> BaselineOrder(js)

-----------------------------------------------------------------------------
(* Candidate machines *)

MachineIds == { machines[i].machine_id : i \in DOMAIN machines }

MachineById(machine_id) ==
    machines[CHOOSE i \in DOMAIN machines : machines[i].machine_id = machine_id]

\* candidates chosen by capability alone
CompatibleMachinesAnyCapable(job) ==
    LET Ok(m) == can_produce(m, job.product_type)
    IN  SelectSeq(machines, Ok)

\* [m for m in machines if m.can_produce(job.product_type)
\*                         and job.can_run_on(m.machine_id)]
CompatibleMachines(job) ==
    LET Ok(m) == can_produce(m, job.product_type) /\ can_run_on(job, m.machine_id)
    IN  SelectSeq(machines, Ok)

\* the last compatible machine instead of the first
BaselineMachineLast(job) ==
    CompatibleMachines(job)[Len(CompatibleMachines(job))].machine_id

\* machine = compatible[0] of the Baseline scheduler
BaselineMachine(job) == CompatibleMachines(job)[1].machine_id

\* the compatible machines in list order, whatever their loads
CandidateOrderUnsorted(job, loads) ==
    [i \in DOMAIN CompatibleMachines(job) |-> CompatibleMachines(job)[i].machine_id]

\* compatible.sort(key=lambda m: loads[m.machine_id]), as machine ids
CandidateOrder(job, loads) ==
    LET LoadKey(m) == << loads[m.machine_id], 0 >>
        sorted == SortedBy(CompatibleMachines(job), LoadKey)
    IN  [i \in DOMAIN sorted |-> sorted[i].machine_id]

-----------------------------------------------------------------------------
(* One attempt to place a job on a candidate machine *)

\* "if prev_product": None and the empty string count as false
Truthy(prev_product) == prev_product # None /\ prev_product # ""

\* batching_agent.py 195-201 and baseline_scheduler.py 93-99
SetupTimeBatching(c, prev_product, product_type) ==
    IF Truthy(prev_product) /\ prev_product # product_type
    THEN get_setup_time(c, prev_product, product_type)
    ELSE IF prev_product = product_type
         THEN get_setup_time(c, product_type, product_type)
         ELSE 0

\* bottleneck_agent.py 200-204
SetupTimeBottleneck(c, prev_product, product_type) ==
    IF Truthy(prev_product)
    THEN get_setup_time(c, prev_product, product_type)
    ELSE 0

SetupTime(p, c, prev_product, product_type) ==
    IF p = "bottleneck"
    THEN SetupTimeBottleneck(c, prev_product, product_type)
    ELSE SetupTimeBatching(c, prev_product, product_type)

\* proposed_start = time(start_minutes // 60, start_minutes % 60)
ProposedStart(cursor, setup_time) ==
    LET start_minutes == Minutes(cursor) + setup_time
    IN  time(start_minutes \div 60, start_minutes % 60)

\* proposed_end = time(min(end_minutes // 60, 23), end_minutes % 60)
ProposedEnd(cursor, setup_time, processing_time) ==
    LET end_minutes == Minutes(cursor) + setup_time + processing_time
    IN  time(Min(end_minutes \div 60, 23), end_minutes % 60)

\* the downtime loop: index of the first window of the machine, in list
\* order, that overlaps [start, end); 0 when none does
FirstConflict(machine, start, end) ==
    LET hit == { i \in DOMAIN machine.downtime_windows :
                   overlaps_with(machine.downtime_windows[i], start, end) }
    IN  IF hit = {} THEN 0
        ELSE CHOOSE i \in hit : \A j \in hit : i <= j

\* time(dt_end_minutes // 60, dt_end_minutes % 60)
SkipPast(downtime) ==
    LET dt_end_minutes == Minutes(downtime.end_time)
    IN  time(dt_end_minutes \div 60, dt_end_minutes % 60)

AttemptResult(outcome, cursor, start, end, setup_time, advances, conflict) ==
    [outcome |-> outcome, cursor |-> cursor, start_time |-> start,
     end_time |-> end, setup_time |-> setup_time, advances |-> advances,
     conflict |-> conflict]

\* an attempt that commits the window after the skip without checking it
AttemptNoRecheck(p, c, job, machine, cursor, prev_product) ==
    LET setup_time == SetupTime(p, c, prev_product, job.product_type)
        start1 == ProposedStart(cursor, setup_time)
        end1 == ProposedEnd(cursor, setup_time, job.processing_time)
        hit1 == FirstConflict(machine, start1, end1)
        cursor2 == SkipPast(machine.downtime_windows[hit1])
        start2 == ProposedStart(cursor2, setup_time)
        end2 == ProposedEnd(cursor2, setup_time, job.processing_time)
    IN  IF start1 = ValueError
        THEN AttemptResult("raise", cursor, start1, start1, setup_time, 0, 0)
        ELSE IF hit1 = 0
        THEN AttemptResult("commit", cursor, start1, end1, setup_time, 0, 0)
        ELSE IF start2 = ValueError
        THEN AttemptResult("raise", cursor2, start2, start2, setup_time, 1, hit1)
        ELSE AttemptResult("commit", cursor2, start2, end2, setup_time, 1, hit1)

\* an attempt that skips a second window when the retry still conflicts
AttemptSecondSkip(p, c, job, machine, cursor, prev_product) ==
    LET setup_time == SetupTime(p, c, prev_product, job.product_type)
        start1 == ProposedStart(cursor, setup_time)
        end1 == ProposedEnd(cursor, setup_time, job.processing_time)
        hit1 == FirstConflict(machine, start1, end1)
        cursor2 == SkipPast(machine.downtime_windows[hit1])
        start2 == ProposedStart(cursor2, setup_time)
        end2 == ProposedEnd(cursor2, setup_time, job.processing_time)
        hit2 == FirstConflict(machine, start2, end2)
        cursor3 == SkipPast(machine.downtime_windows[hit2])
    IN  IF start1 = ValueError
        THEN AttemptResult("raise", cursor, start1, start1, setup_time, 0, 0)
        ELSE IF hit1 = 0
        THEN AttemptResult("commit", cursor, start1, end1, setup_time, 0, 0)
        ELSE IF start2 = ValueError
        THEN AttemptResult("raise", cursor2, start2, start2, setup_time, 1, hit1)
        ELSE IF hit2 # 0
        THEN AttemptResult("reject", cursor3, start2, end2, setup_time, 2, hit1)
        ELSE AttemptResult("commit", cursor2, start2, end2, setup_time, 1, hit1)

\* an attempt that moves the cursor past the window but commits the window
\* proposed before the move
AttemptStaleWindow(p, c, job, machine, cursor, prev_product) ==
    LET setup_time == SetupTime(p, c, prev_product, job.product_type)
        start1 == ProposedStart(cursor, setup_time)
        end1 == ProposedEnd(cursor, setup_time, job.processing_time)
        hit1 == FirstConflict(machine, start1, end1)
        cursor2 == SkipPast(machine.downtime_windows[hit1])
        start2 == ProposedStart(cursor2, setup_time)
        end2 == ProposedEnd(cursor2, setup_time, job.processing_time)
    IN  IF start1 = ValueError
        THEN AttemptResult("raise", cursor, start1, start1, setup_time, 0, 0)
        ELSE IF hit1 = 0
        THEN AttemptResult("commit", cursor, start1, end1, setup_time, 0, 0)
        ELSE IF start2 = ValueError
        THEN AttemptResult("raise", cursor2, start2, start2, setup_time, 1, hit1)
        ELSE IF FirstConflict(machine, start2, end2) # 0
        THEN AttemptResult("reject", cursor2, start2, end2, setup_time, 1, hit1)
        ELSE AttemptResult("commit", cursor2, start1, end1, setup_time, 1, hit1)

\* the body of "for best_machine in compatible_machines" up to the decision:
\* batching_agent.py 192-240, bottleneck_agent.py 197-242.
\*   outcome  "commit", "reject" (continue) or "raise" (ValueError of time())
\*   cursor   current_time[machine_id] when the decision is taken
\*   advances how often the cursor was moved past a downtime window
\*   conflict index of the downtime window skipped, 0 when none
Attempt(p, c, job, machine, cursor, prev_product) ==
    LET setup_time == SetupTime(p, c, prev_product, job.product_type)
        start1 == ProposedStart(cursor, setup_time)
        end1 == ProposedEnd(cursor, setup_time, job.processing_time)
        hit1 == FirstConflict(machine, start1, end1)
        cursor2 == SkipPast(machine.downtime_windows[hit1])
        start2 == ProposedStart(cursor2, setup_time)
        end2 == ProposedEnd(cursor2, setup_time, job.processing_time)
    IN  IF start1 = ValueError
        THEN AttemptResult("raise", cursor, start1, start1, setup_time, 0, 0)
        ELSE IF hit1 = 0
        THEN AttemptResult("commit", cursor, start1, end1, setup_time, 0, 0)
        ELSE IF start2 = ValueError
        THEN AttemptResult("raise", cursor2, start2, start2, setup_time, 1, hit1)
        ELSE IF FirstConflict(machine, start2, end2) # 0
        THEN AttemptResult("reject", cursor2, start2, end2, setup_time, 1, hit1)
        ELSE AttemptResult("commit", cursor2, start2, end2, setup_time, 1, hit1)

\* baseline_scheduler.py 89-117: no downtime handling, and the start hour is
\* clamped like the end hour
BaselineAttempt(c, job, cursor, prev_product) ==
    LET setup_time == SetupTimeBatching(c, prev_product, job.product_type)
        start_minutes == Minutes(cursor) + setup_time
        end_minutes == start_minutes + job.processing_time
        proposed_start == time(Min(start_minutes \div 60, 23), start_minutes % 60)
        proposed_end == time(Min(end_minutes \div 60, 23), end_minutes % 60)
    IN  AttemptResult("commit", cursor, proposed_start, proposed_end, setup_time, 0, 0)

-----------------------------------------------------------------------------
(* KPI calculation *)

\* the count over the machine's list sorted by start time
SwitchesOfByStartTime(js) ==
    LET StartKey(a) == << Minutes(a.start_time), 0 >>
        by_start == SortedBy(js, StartKey)
    IN  Cardinality({ i \in 2..Len(by_start) :
                        by_start[i].job.product_type # by_start[i - 1].job.product_type })

\* number of adjacent pairs of a machine's list, in insertion order, whose
\* product types differ
SwitchesOf(js) ==
    Cardinality({ i \in 2..Len(js) :
                    js[i].job.product_type # js[i - 1].job.product_type })

\* a calculation that takes a utilization for every machine of the list, the
\* ones without assignments included
calculate_kpis_every_machine(sched, ms, c) ==
    LET all_jobs == get_all_jobs(sched)
        utilizations ==
            { Sum([i \in DOMAIN get_machine_jobs(sched, ms[k].machine_id) |->
                     get_duration_minutes(get_machine_jobs(sched, ms[k].machine_id)[i])]) * 100
              : k \in DOMAIN ms }
        maxu == IF utilizations = {} THEN 0
                ELSE CHOOSE u \in utilizations : \A v \in utilizations : v <= u
        minu == IF utilizations = {} THEN 0
                ELSE CHOOSE u \in utilizations : \A v \in utilizations : u <= v
    IN  [computed |-> TRUE,
         total_tardiness |->
             Sum([i \in DOMAIN all_jobs |-> get_tardiness_minutes(all_jobs[i])]),
         total_setup_time |->
             Sum([i \in DOMAIN all_jobs |-> all_jobs[i].setup_time_before]),
         num_setup_switches |->
             Sum([i \in DOMAIN sched.assignments |->
                    SwitchesOf(sched.assignments[i].jobs)]),
         max_machine_utilization |-> maxu,
         min_machine_utilization |-> minu,
         utilization_imbalance |-> maxu - minu,
         num_violations |-> 0]

\* Schedule.calculate_kpis.  A utilization is total_time / shift_duration * 100;
\* the model keeps the numerator total_time * 100 of the exact fraction over
\* shift_duration (UtilizationDenominator), the same for every machine.
calculate_kpis(sched, ms, c) ==
    LET all_jobs == get_all_jobs(sched)
        utilizations ==
            { Sum([i \in DOMAIN get_machine_jobs(sched, ms[k].machine_id) |->
                     get_duration_minutes(get_machine_jobs(sched, ms[k].machine_id)[i])]) * 100
              : k \in { k \in DOMAIN ms : get_machine_jobs(sched, ms[k].machine_id) # << >> } }
        maxu == IF utilizations = {} THEN 0
                ELSE CHOOSE u \in utilizations : \A v \in utilizations : v <= u
        minu == IF utilizations = {} THEN 0
                ELSE CHOOSE u \in utilizations : \A v \in utilizations : u <= v
    IN  [computed |-> TRUE,
         total_tardiness |->
             Sum([i \in DOMAIN all_jobs |-> get_tardiness_minutes(all_jobs[i])]),
         total_setup_time |->
             Sum([i \in DOMAIN all_jobs |-> all_jobs[i].setup_time_before]),
         num_setup_switches |->
             Sum([i \in DOMAIN sched.assignments |->
                    SwitchesOf(sched.assignments[i].jobs)]),
         max_machine_utilization |-> maxu,
         min_machine_utilization |-> minu,
         utilization_imbalance |-> maxu - minu,
         num_violations |-> 0]

UtilizationDenominator(c) == get_shift_duration_minutes(c)

\* The unit of the model's scores: a score of the code times ten (weights in
\* tenths) times the shift duration (utilizations as numerators).
ScoreUnit(c) == 10 * UtilizationDenominator(c)

\* a score that charges the penalty once, however many violations
get_weighted_score_flat_penalty(kpi, c) ==
    UtilizationDenominator(c) *
        ( kpi.total_tardiness * c.tardiness_weight
        + kpi.total_setup_time * c.setup_weight
        + (IF kpi.num_violations > 0 THEN 1000 * 10 ELSE 0) )
    + kpi.utilization_imbalance * c.utilization_weight

\* KPI.get_weighted_score, in units of 1 / ScoreUnit(c)
get_weighted_score(kpi, c) ==
    UtilizationDenominator(c) *
        ( kpi.total_tardiness * c.tardiness_weight
        + kpi.total_setup_time * c.setup_weight
        + kpi.num_violations * 1000 * 10 )
    + kpi.utilization_imbalance * c.utilization_weight

-----------------------------------------------------------------------------
(* Candidate selection *)

\* a selection that returns the first candidate with a KPI, unsorted
select_best_schedule_first(candidates, c) ==
    LET HasKPI(x) == x.schedule.kpis.computed
        scored_candidates == SelectSeq(candidates, HasKPI)
    IN  IF candidates = << >> THEN Raised("ValueError")
        ELSE IF scored_candidates = << >> THEN Raised("IndexError")
        ELSE scored_candidates[1].schedule

\* SupervisorAgent.select_best_schedule: the schedule returned.  Candidates
\* without a KPI are not scored; scored_candidates[0] of an empty list
\* raises IndexError.
select_best_schedule(candidates, c) ==
    LET HasKPI(x) == x.schedule.kpis.computed
        scored_candidates == SelectSeq(candidates, HasKPI)
        ScoreKey(x) == << get_weighted_score(x.schedule.kpis, c), 0 >>
        sorted == SortedBy(scored_candidates, ScoreKey)
    IN  IF candidates = << >> THEN Raised("ValueError")
        ELSE IF scored_candidates = << >> THEN Raised("IndexError")
        ELSE sorted[1].schedule

\* full_explanation of select_best_schedule, kept as its heading
FinalRecommendation == "MULTI-AGENT OPTIMIZATION - FINAL RECOMMENDATION"

\* the call left with an exception
HasRaised(result) == result \in { Raised("ValueError"), Raised("IndexError") }

\* supervisor.py 232, best_schedule.explanation = full_explanation: the
\* Schedule returned is the candidate of the list itself, so the write shows
\* in the caller's list.  The list as it is after the call.
CandidatesAfterSelection(candidates, c) ==
    LET best == select_best_schedule(candidates, c)
        at == { i \in DOMAIN candidates : candidates[i].schedule = best }
        first == CHOOSE i \in at : \A j \in at : i <= j
    IN  IF HasRaised(best) THEN candidates
        ELSE [candidates EXCEPT ![first].schedule.explanation = FinalRecommendation]

\* what select_best_schedule returns: the selected Schedule, carrying the
\* final explanation, or the exception
SelectedSchedule(candidates, c) ==
    LET best == select_best_schedule(candidates, c)
    IN  IF HasRaised(best) THEN best
        ELSE [best EXCEPT !.explanation = FinalRecommendation]

-----------------------------------------------------------------------------
(* Constraint validator *)

\* a violation string, kept as what it reports
Violation(kind, job_id, machine_id, other, window, missing) ==
    [kind |-> kind, job_id |-> job_id, machine_id |-> machine_id,
     other |-> other, window |-> window, missing |-> missing]

\* a validator that reports missing jobs only when nothing was assigned
MissingJobViolationsWhenEmpty(sched, js) ==
    LET all == get_all_jobs(sched)
        all_job_ids == { js[i].job_id : i \in DOMAIN js }
    IN  IF all = << >> /\ all_job_ids # {}
        THEN << Violation("missing", "", "", "", 0, all_job_ids) >>
        ELSE << >>

\* constraint_agent.py 60-66
MissingJobViolations(sched, js) ==
    LET all == get_all_jobs(sched)
        assigned_job_ids == { all[i].job.job_id : i \in DOMAIN all }
        all_job_ids == { js[i].job_id : i \in DOMAIN js }
        missing_jobs == all_job_ids \ assigned_job_ids
    IN  IF missing_jobs # {}
        THEN << Violation("missing", "", "", "", 0, missing_jobs) >>
        ELSE << >>

\* constraint_agent.py 70-96, for one assignment
AssignmentViolations(a, ms, c) ==
    LET end_minutes == Minutes(a.end_time)
        shift_end_with_overtime == Minutes(c.shift_end) + c.max_overtime_minutes
        found == { i \in DOMAIN ms : ms[i].machine_id = a.machine_id }
        machine == ms[CHOOSE i \in found : \A j \in found : i <= j]
        dts == machine.downtime_windows
    IN  (IF end_minutes > shift_end_with_overtime
         THEN << Violation("shift", a.job.job_id, a.machine_id, "", 0, {}) >>
         ELSE << >>)
        \o
        (IF found = {} THEN << >>
         ELSE (IF ~ can_produce(machine, a.job.product_type)
               THEN << Violation("capability", a.job.job_id, a.machine_id, "", 0, {}) >>
               ELSE << >>)
              \o
              Concat([i \in DOMAIN dts |->
                        IF overlaps_with(dts[i], a.start_time, a.end_time)
                        THEN << Violation("downtime", a.job.job_id, a.machine_id, "", i, {}) >>
                        ELSE << >>]))

\* a test that counts two assignments that only touch as overlapping
TimelineConflictClosed(start_min, end_min, existing_start, existing_end) ==
    ~ (end_min < existing_start \/ start_min > existing_end)

\* constraint_agent.py 111: the test of the timeline loop
TimelineConflict(start_min, end_min, existing_start, existing_end) ==
    ~ (end_min <= existing_start \/ start_min >= existing_end)

\* constraint_agent.py 98-117
OverlapViolations(sched) ==
    LET all == get_all_jobs(sched)
    IN  Concat([k \in DOMAIN all |->
            Concat([e \in 1..(k - 1) |->
                IF /\ all[e].machine_id = all[k].machine_id
                   /\ TimelineConflict(Minutes(all[k].start_time),
                                       Minutes(all[k].end_time),
                                       Minutes(all[e].start_time),
                                       Minutes(all[e].end_time))
                THEN << Violation("overlap", all[k].job.job_id,
                                  all[k].machine_id, all[e].job.job_id, 0, {}) >>
                ELSE << >>])])

\* constraint_agent.py 119-129
RushViolations(sched) ==
    LET all == get_all_jobs(sched)
    IN  Concat([k \in DOMAIN all |->
            IF is_rush(all[k].job) /\ is_late(all[k])
            THEN << Violation("rush", all[k].job.job_id, all[k].machine_id, "", 0, {}) >>
            ELSE << >>])

\* a validator that stops at the first check that fails
validate_schedule_first_failure(sched, js, ms, c) ==
    LET all == get_all_jobs(sched)
        per == Concat([k \in DOMAIN all |-> AssignmentViolations(all[k], ms, c)])
    IN  IF MissingJobViolations(sched, js) # << >>
        THEN MissingJobViolations(sched, js)
        ELSE IF per # << >> THEN per
        ELSE IF OverlapViolations(sched) # << >> THEN OverlapViolations(sched)
        ELSE RushViolations(sched)

\* ConstraintAgent.validate_schedule: the violations list; is_valid is
\* len(violations) == 0
validate_schedule(sched, js, ms, c) ==
    LET all == get_all_jobs(sched)
    IN  MissingJobViolations(sched, js)
        \o Concat([k \in DOMAIN all |-> AssignmentViolations(all[k], ms, c)])
        \o OverlapViolations(sched)
        \o RushViolations(sched)

\* is_valid = len(violations) == 0
is_valid(vs) == Len(vs) = 0

\* a count of every late assignment, rush or not
check_rush_job_priority_any_late(sched) ==
    LET all == get_all_jobs(sched)
    IN  Sum([k \in DOMAIN all |-> IF is_late(all[k]) THEN 1 ELSE 0])

\* ConstraintAgent.check_rush_job_priority: the returned count
check_rush_job_priority(sched) ==
    LET all == get_all_jobs(sched)
    IN  Sum([k \in DOMAIN all |->
                IF is_rush(all[k].job) /\ is_late(all[k]) THEN 1 ELSE 0])

-----------------------------------------------------------------------------
(* The run of one policy *)

\* what the last step of the run did
Step(kind, job_id, machine_id, before, first_start, first_end, advances, conflict) ==
    [kind |-> kind, job_id |-> job_id, machine_id |-> machine_id,
     before |-> before, first_start |-> first_start, first_end |-> first_end,
     advances |-> advances, conflict |-> conflict]

NoTime == [hour |-> 0, minute |-> 0]

PlainStep(kind, job_id) == Step(kind, job_id, "", NoTime, NoTime, NoTime, 0, 0)

CurrentJob == all_jobs_sorted[idx]

\* no pipeline is running
NoState == [status |-> "none"]

\* no single call was made
NoCall == [op |-> "none"]

Init ==
    /\ jobs \in JobLists
    /\ machines \in MachineLists
    /\ constraint \in ConstraintUniverse
    /\ policy \in Policies
    /\ pc = "start"
    /\ all_jobs_sorted = << >>
    /\ idx = 0
    /\ compatible = << >>
    /\ current_time = << >>
    /\ current_product = << >>
    /\ machine_loads = << >>
    /\ schedule = EmptySchedule
    /\ violations = << >>
    /\ last = PlainStep("none", "")
    /\ dropped = {}
    /\ state = NoState
    /\ call = NoCall

\* the Schedule passed to rebalance_schedule: the one the caller names in
\* the call, the batching schedule in the pipeline (orchestrator.py 167-168),
\* an empty one otherwise
CurrentSchedule ==
    IF call.op = "rebalance_schedule" THEN call.schedule
    ELSE IF state # NoState THEN state.batching_schedule
    ELSE EmptySchedule

\* bottleneck_agent.py 156-161: the load of a machine in the Schedule passed in
OriginalLoad(machine_id) ==
    LET js == get_machine_jobs(CurrentSchedule, machine_id)
    IN  Sum([i \in DOMAIN js |-> get_duration_minutes(js[i])])

\* a start that takes the loads of the Schedule passed in as the loads the
\* rebalanced machines begin with
BeginLoadsFromInput ==
    /\ pc = "start"
    /\ all_jobs_sorted' = PolicyOrder(policy, jobs)
    /\ idx' = 1
    /\ current_time' = [m \in MachineIds |-> constraint.shift_start]
    /\ current_product' = [m \in MachineIds |-> None]
    /\ machine_loads' = [m \in MachineIds |->
                            IF policy = "bottleneck" THEN OriginalLoad(m) ELSE 0]
    /\ schedule' = EmptySchedule
    /\ pc' = "run"
    /\ last' = PlainStep("begin", "")
    /\ UNCHANGED << state, call, jobs, machines, constraint, policy, compatible, violations, dropped >>

\* a start that sorts the caller's list itself (all_jobs.sort(...) without
\* the copy)
BeginSortInPlace ==
    /\ pc = "start"
    /\ all_jobs_sorted' = PolicyOrder(policy, jobs)
    /\ jobs' = PolicyOrder(policy, jobs)
    /\ idx' = 1
    /\ current_time' = [m \in MachineIds |-> constraint.shift_start]
    /\ current_product' = [m \in MachineIds |-> None]
    /\ machine_loads' = [m \in MachineIds |-> 0]
    /\ schedule' = EmptySchedule
    /\ pc' = "run"
    /\ last' = PlainStep("begin", "")
    /\ UNCHANGED << state, call, machines, constraint, policy, compatible, violations, dropped >>

\* a policy run on the further inputs
InitE ==
    /\ jobs \in InjSeqs(FurtherJobUniverse, MaxJobs) \ { << >> }
    /\ machines \in FurtherMachineLists
    /\ constraint \in {DirectedShift, LateShift}
    /\ policy \in Policies
    /\ pc = "start"
    /\ all_jobs_sorted = << >>
    /\ idx = 0
    /\ compatible = << >>
    /\ current_time = << >>
    /\ current_product = << >>
    /\ machine_loads = << >>
    /\ schedule = EmptySchedule
    /\ violations = << >>
    /\ last = PlainStep("none", "")
    /\ dropped = {}
    /\ state = NoState
    /\ call = NoCall

\* batching_agent.py 153-175, bottleneck_agent.py 169-180,
\* baseline_scheduler.py 64-71: the processing order and the per-run maps.
\* The order is built in lists of the run's own (the product groups of
\* Batching, all_jobs.copy() of Bottleneck, sorted() of Baseline): the
\* caller's list keeps its order.
Begin ==
    /\ pc = "start"
    /\ all_jobs_sorted' = PolicyOrder(policy, jobs)
    /\ idx' = 1
    /\ current_time' = [m \in MachineIds |-> constraint.shift_start]
    /\ current_product' = [m \in MachineIds |-> None]
    /\ machine_loads' = [m \in MachineIds |-> 0]
    /\ schedule' = EmptySchedule
    /\ pc' = "run"
    /\ last' = PlainStep("begin", "")
    /\ UNCHANGED << state, call, jobs, machines, constraint, policy, compatible, violations, dropped >>

\* "if not compatible_machines: continue"
NoCompatibleMachine ==
    /\ pc = "run"
    /\ policy \in {"batching", "bottleneck"}
    /\ idx <= Len(all_jobs_sorted)
    /\ CandidateOrder(CurrentJob, machine_loads) = << >>
    /\ dropped' = dropped \cup {CurrentJob.job_id}
    /\ idx' = idx + 1
    /\ last' = PlainStep("skip", CurrentJob.job_id)
    /\ UNCHANGED << state, call, jobs, machines, constraint, policy, pc, all_jobs_sorted,
                    compatible, current_time, current_product, machine_loads,
                    schedule, violations >>

\* the compatible machines of the current job, sorted by load
OrderCandidates ==
    /\ pc = "run"
    /\ policy \in {"batching", "bottleneck"}
    /\ idx <= Len(all_jobs_sorted)
    /\ CandidateOrder(CurrentJob, machine_loads) # << >>
    /\ compatible' = CandidateOrder(CurrentJob, machine_loads)
    /\ pc' = "try"
    /\ last' = PlainStep("candidates", CurrentJob.job_id)
    /\ UNCHANGED << state, call, jobs, machines, constraint, policy, all_jobs_sorted, idx,
                    current_time, current_product, machine_loads, schedule,
                    violations, dropped >>

\* the attempt of the current job on the next candidate machine
CurrentAttempt ==
    Attempt(policy, constraint, CurrentJob, MachineById(Head(compatible)),
            current_time[Head(compatible)], current_product[Head(compatible)])

AttemptStep(kind, r) ==
    Step(kind, CurrentJob.job_id, Head(compatible), current_time[Head(compatible)],
         ProposedStart(current_time[Head(compatible)], r.setup_time),
         ProposedEnd(current_time[Head(compatible)], r.setup_time,
                     CurrentJob.processing_time),
         r.advances, r.conflict)

\* a commit that charges the machine with the time elapsed on its clock,
\* idle time before and inside a skipped downtime window included
AttemptCommitLoadByClock ==
    /\ pc = "try"
    /\ LET r == CurrentAttempt
           machine_id == Head(compatible)
       IN  /\ r.outcome = "commit"
           /\ schedule' = add_assignment(schedule,
                              JobAssignment(CurrentJob, machine_id, r.start_time,
                                            r.end_time, r.setup_time))
           /\ current_time' = [current_time EXCEPT ![machine_id] = r.end_time]
           /\ current_product' =
                  [current_product EXCEPT ![machine_id] = CurrentJob.product_type]
           /\ machine_loads' =
                  [machine_loads EXCEPT ![machine_id] =
                       Minutes(r.end_time) - Minutes(constraint.shift_start)]
           /\ last' = AttemptStep("commit", r)
    /\ compatible' = << >>
    /\ idx' = idx + 1
    /\ pc' = "run"
    /\ UNCHANGED << state, call, jobs, machines, constraint, policy, all_jobs_sorted,
                    violations, dropped >>

\* no conflict (at once or after the retry): the assignment is appended and
\* the machine's cursor, product and load are updated
AttemptCommit ==
    /\ pc = "try"
    /\ LET r == CurrentAttempt
           machine_id == Head(compatible)
       IN  /\ r.outcome = "commit"
           /\ schedule' = add_assignment(schedule,
                              JobAssignment(CurrentJob, machine_id, r.start_time,
                                            r.end_time, r.setup_time))
           /\ current_time' = [current_time EXCEPT ![machine_id] = r.end_time]
           /\ current_product' =
                  [current_product EXCEPT ![machine_id] = CurrentJob.product_type]
           /\ machine_loads' =
                  [machine_loads EXCEPT ![machine_id] =
                       @ + CurrentJob.processing_time + r.setup_time]
           /\ last' = AttemptStep("commit", r)
    /\ compatible' = << >>
    /\ idx' = idx + 1
    /\ pc' = "run"
    /\ UNCHANGED << state, call, jobs, machines, constraint, policy, all_jobs_sorted,
                    violations, dropped >>

\* still a conflict after the retry: "continue" with the next candidate; the
\* job is left without assignment when this was the last candidate
AttemptReject ==
    /\ pc = "try"
    /\ LET r == CurrentAttempt
           machine_id == Head(compatible)
       IN  /\ r.outcome = "reject"
           /\ current_time' = [current_time EXCEPT ![machine_id] = r.cursor]
           /\ last' = AttemptStep("reject", r)
    /\ compatible' = Tail(compatible)
    /\ IF Tail(compatible) = << >>
       THEN /\ dropped' = dropped \cup {CurrentJob.job_id}
            /\ idx' = idx + 1
            /\ pc' = "run"
       ELSE UNCHANGED << dropped, idx, pc >>
    /\ UNCHANGED << state, call, jobs, machines, constraint, policy, all_jobs_sorted,
                    current_product, machine_loads, schedule, violations >>

\* time(start_minutes // 60, ...) raises ValueError: the run ends without
\* returning a Schedule
AttemptRaise ==
    /\ pc = "try"
    /\ CurrentAttempt.outcome = "raise"
    /\ last' = AttemptStep("raise", CurrentAttempt)
    /\ pc' = "raised"
    /\ UNCHANGED << state, call, jobs, machines, constraint, policy, all_jobs_sorted, idx,
                    compatible, current_time, current_product, machine_loads,
                    schedule, violations, dropped >>

\* baseline_scheduler.py 84-86
BaselineSkip ==
    /\ pc = "run"
    /\ policy = "baseline"
    /\ idx <= Len(all_jobs_sorted)
    /\ CompatibleMachines(CurrentJob) = << >>
    /\ dropped' = dropped \cup {CurrentJob.job_id}
    /\ idx' = idx + 1
    /\ last' = PlainStep("skip", CurrentJob.job_id)
    /\ UNCHANGED << state, call, jobs, machines, constraint, policy, pc, all_jobs_sorted,
                    compatible, current_time, current_product, machine_loads,
                    schedule, violations >>

\* baseline_scheduler.py 88-124
BaselineAssign ==
    /\ pc = "run"
    /\ policy = "baseline"
    /\ idx <= Len(all_jobs_sorted)
    /\ CompatibleMachines(CurrentJob) # << >>
    /\ LET machine_id == BaselineMachine(CurrentJob)
           r == BaselineAttempt(constraint, CurrentJob, current_time[machine_id],
                                current_product[machine_id])
       IN  /\ schedule' = add_assignment(schedule,
                              JobAssignment(CurrentJob, machine_id, r.start_time,
                                            r.end_time, r.setup_time))
           /\ current_time' = [current_time EXCEPT ![machine_id] = r.end_time]
           /\ current_product' =
                  [current_product EXCEPT ![machine_id] = CurrentJob.product_type]
           /\ last' = Step("assign", CurrentJob.job_id, machine_id,
                           current_time[machine_id], r.start_time, r.end_time, 0, 0)
    /\ idx' = idx + 1
    /\ UNCHANGED << state, call, jobs, machines, constraint, policy, pc, all_jobs_sorted,
                    compatible, machine_loads, violations, dropped >>

\* bottleneck_agent.py 164-165: max_load and min_load of the Schedule passed in
OriginalMaxLoad ==
    IF machines = << >> THEN 0
    ELSE LET loads == { OriginalLoad(machines[k].machine_id) : k \in DOMAIN machines }
         IN  CHOOSE x \in loads : \A y \in loads : y <= x

OriginalMinLoad ==
    IF machines = << >> THEN 0
    ELSE LET loads == { OriginalLoad(machines[k].machine_id) : k \in DOMAIN machines }
         IN  CHOOSE x \in loads : \A y \in loads : x <= y

\* schedule.explanation = explanation: the text, kept as its first line and,
\* for Bottleneck, the two figures it takes from the Schedule passed in
Explanation(p) ==
    CASE p = "batching" -> "BATCHING AGENT RECOMMENDATIONS:"
      [] p = "bottleneck" ->
             "BOTTLENECK AGENT ANALYSIS: Max load: " \o ToString(OriginalMaxLoad)
                 \o " min, Min load: " \o ToString(OriginalMinLoad) \o " min"
      [] p = "baseline" -> "BASELINE FIFO SCHEDULER - NO OPTIMIZATION"

\* the loop is over: the explanation is stored in the Schedule and the
\* Schedule is returned (Baseline computes its KPIs first,
\* baseline_scheduler.py 127)
Finish ==
    /\ pc = "run"
    /\ idx > Len(all_jobs_sorted)
    /\ schedule' = IF policy = "baseline"
                   THEN [schedule EXCEPT !.kpis =
                            calculate_kpis(schedule, machines, constraint),
                                         !.explanation = Explanation(policy)]
                   ELSE [schedule EXCEPT !.explanation = Explanation(policy)]
    /\ pc' = "done"
    /\ last' = PlainStep("finish", "")
    /\ UNCHANGED << state, call, jobs, machines, constraint, policy, all_jobs_sorted, idx,
                    compatible, current_time, current_product, machine_loads,
                    violations, dropped >>

\* the caller validates the returned schedule against the full job list
Validate ==
    /\ pc = "done"
    /\ violations' = validate_schedule(schedule, jobs, machines, constraint)
    /\ pc' = "validated"
    /\ last' = PlainStep("validate", "")
    /\ UNCHANGED << state, call, jobs, machines, constraint, policy, all_jobs_sorted, idx,
                    compatible, current_time, current_product, machine_loads,
                    schedule, dropped >>

Next ==
    \/ Begin
    \/ NoCompatibleMachine
    \/ OrderCandidates
    \/ AttemptCommit
    \/ AttemptReject
    \/ AttemptRaise
    \/ BaselineSkip
    \/ BaselineAssign
    \/ Finish
    \/ Validate

Spec == Init /\ [][Next]_vars

SpecE == InitE /\ [][Next]_vars

-----------------------------------------------------------------------------
(* The pipeline of the orchestrator: analyze_request, create_batching_schedule,
   create_bottleneck_schedule, validate_schedules, select_best *)

\* final_schedule=None, batching_schedule=None, bottleneck_schedule=None
NoSchedule == [none |-> TRUE]

\* initial_state of OptimizationOrchestrator.optimize
InitialState ==
    [batching_schedule |-> NoSchedule, bottleneck_schedule |-> NoSchedule,
     batching_valid |-> FALSE, batching_violations |-> << >>,
     bottleneck_valid |-> FALSE, bottleneck_violations |-> << >>,
     final_schedule |-> NoSchedule, retry_count |-> 0, status |-> "running"]

InitP ==
    /\ jobs \in JobLists
    /\ machines \in MachineLists
    /\ constraint \in ConstraintUniverse
    /\ policy = "batching"
    /\ pc = "analyze_request"
    /\ all_jobs_sorted = << >>
    /\ idx = 0
    /\ compatible = << >>
    /\ current_time = << >>
    /\ current_product = << >>
    /\ machine_loads = << >>
    /\ schedule = EmptySchedule
    /\ violations = << >>
    /\ last = PlainStep("none", "")
    /\ dropped = {}
    /\ state = InitialState
    /\ call = NoCall

\* _analyze_request: the analysis text is not read again
AnalyzeRequest ==
    /\ pc = "analyze_request"
    /\ state' = [state EXCEPT !.status = "analyzing"]
    /\ pc' = "start"
    /\ UNCHANGED << jobs, machines, constraint, policy, all_jobs_sorted, idx,
                    compatible, current_time, current_product, machine_loads,
                    schedule, violations, last, dropped, call >>

\* _create_batching_schedule after the agent returned: KPIs, then the state;
\* the next node starts the Bottleneck agent
CreateBatchingSchedule ==
    /\ pc = "done"
    /\ policy = "batching"
    /\ state' = [state EXCEPT !.batching_schedule =
                    [schedule EXCEPT !.kpis =
                        calculate_kpis(schedule, machines, constraint)]]
    /\ policy' = "bottleneck"
    /\ pc' = "start"
    /\ dropped' = {}
    /\ last' = PlainStep("create_batching_schedule", "")
    /\ UNCHANGED << jobs, machines, constraint, all_jobs_sorted, idx,
                    compatible, current_time, current_product, machine_loads,
                    schedule, violations, call >>

\* _create_bottleneck_schedule after the agent returned
CreateBottleneckSchedule ==
    /\ pc = "done"
    /\ policy = "bottleneck"
    /\ state' = [state EXCEPT !.bottleneck_schedule =
                    [schedule EXCEPT !.kpis =
                        calculate_kpis(schedule, machines, constraint)]]
    /\ pc' = "validate_schedules"
    /\ last' = PlainStep("create_bottleneck_schedule", "")
    /\ UNCHANGED << jobs, machines, constraint, policy, all_jobs_sorted, idx,
                    compatible, current_time, current_product, machine_loads,
                    schedule, violations, dropped, call >>

\* _validate_schedules
ValidateSchedules ==
    /\ pc = "validate_schedules"
    /\ LET batching_violations ==
               validate_schedule(state.batching_schedule, jobs, machines, constraint)
           bottleneck_violations ==
               validate_schedule(state.bottleneck_schedule, jobs, machines, constraint)
       IN  state' = [state EXCEPT
                       !.batching_valid = is_valid(batching_violations),
                       !.batching_violations = batching_violations,
                       !.bottleneck_valid = is_valid(bottleneck_violations),
                       !.bottleneck_violations = bottleneck_violations]
    /\ pc' = "select_best"
    /\ last' = PlainStep("validate_schedules", "")
    /\ UNCHANGED << jobs, machines, constraint, policy, all_jobs_sorted, idx,
                    compatible, current_time, current_product, machine_loads,
                    schedule, violations, dropped, call >>

Candidate(sched, source) == [schedule |-> sched, source |-> source]

\* a candidate list that takes both schedules whatever the validator said
CandidatesUnfiltered(st) ==
    << Candidate(st.batching_schedule, "Batching-Optimized") >>
    \o << Candidate(st.bottleneck_schedule, "Load-Balanced") >>

\* candidates of _select_best: the schedules the validator accepted
Candidates(st) ==
    (IF st.batching_valid
     THEN << Candidate(st.batching_schedule, "Batching-Optimized") >>
     ELSE << >>)
    \o
    (IF st.bottleneck_valid
     THEN << Candidate(st.bottleneck_schedule, "Load-Balanced") >>
     ELSE << >>)

\* _select_best
SelectBest ==
    /\ pc = "select_best"
    /\ state' = IF Candidates(state) = << >>
                THEN [state EXCEPT !.status = "failed"]
                ELSE LET after == CandidatesAfterSelection(Candidates(state), constraint)
                         Written(source, sched) ==
                             IF \E i \in DOMAIN after : after[i].source = source
                             THEN after[CHOOSE i \in DOMAIN after :
                                            after[i].source = source].schedule
                             ELSE sched
                     IN  [state EXCEPT
                            !.batching_schedule = Written("Batching-Optimized", @),
                            !.bottleneck_schedule = Written("Load-Balanced", @),
                            !.final_schedule =
                                SelectedSchedule(Candidates(state), constraint),
                            !.status = "completed"]
    /\ pc' = "END"
    /\ last' = PlainStep("select_best", "")
    /\ UNCHANGED << jobs, machines, constraint, policy, all_jobs_sorted, idx,
                    compatible, current_time, current_product, machine_loads,
                    schedule, violations, dropped, call >>

NextP ==
    \/ AnalyzeRequest
    \/ Begin
    \/ NoCompatibleMachine
    \/ OrderCandidates
    \/ AttemptCommit
    \/ AttemptReject
    \/ AttemptRaise
    \/ Finish
    \/ CreateBatchingSchedule
    \/ CreateBottleneckSchedule
    \/ ValidateSchedules
    \/ SelectBest

SpecP == InitP /\ [][NextP]_vars

-----------------------------------------------------------------------------
(* Single calls of get_weighted_score and select_best_schedule *)

\* KPI(...) with the fields the score reads; the others keep their defaults
KPI(tardiness, setup, imbalance, nviolations) ==
    [computed |-> TRUE, total_tardiness |-> tardiness,
     total_setup_time |-> setup, num_setup_switches |-> 0,
     max_machine_utilization |-> 0, min_machine_utilization |-> 0,
     utilization_imbalance |-> imbalance, num_violations |-> nviolations]

KPIUniverse ==
    { KPI(t, s, u, v) : t \in {0, 15, 1200}, s \in {0, 30},
                        u \in {0, 4500}, v \in {0, 1, 2} }

\* Constraint(tardiness_weight=..., setup_weight=..., utilization_weight=...)
WithWeights(c, wt, ws, wu) ==
    [c EXCEPT !.tardiness_weight = wt, !.setup_weight = ws,
              !.utilization_weight = wu]

\* the default weights, two non-negative variations and a negative weight
WeightedConstraints ==
    { DayShift, WithWeights(DayShift, 0, 5, 3), WithWeights(DayShift, 10, 0, 0),
      WithWeights(DayShift, 10, 5, -3) }

\* a schedule that carries the KPI, or none
ScheduleWith(kpi) == [assignments |-> << >>, kpis |-> kpi, explanation |-> ""]

\* candidate lists: the i-th candidate is labelled by its position
CandidateLists ==
    UNION { { [i \in 1..n |-> Candidate(ScheduleWith(ks[i]), << "candidate", i >>)]
              : ks \in [1..n -> KPIUniverse \cup {NoKPI}] }
            : n \in 0..MaxCandidates }

InitK ==
    /\ jobs = << >>
    /\ machines = << >>
    /\ constraint = DayShift
    /\ policy = "none"
    /\ pc = "idle"
    /\ all_jobs_sorted = << >>
    /\ idx = 0
    /\ compatible = << >>
    /\ current_time = << >>
    /\ current_product = << >>
    /\ machine_loads = << >>
    /\ schedule = EmptySchedule
    /\ violations = << >>
    /\ last = PlainStep("none", "")
    /\ dropped = {}
    /\ state = NoState
    /\ call = NoCall

\* two KPIs scored under one Constraint
GetWeightedScore ==
    /\ pc = "idle"
    /\ pc' = "returned"
    /\ \E k1 \in KPIUniverse, k2 \in KPIUniverse, c \in WeightedConstraints :
          call' = [op |-> "get_weighted_score", kpis |-> << k1, k2 >>,
                   constraint |-> c,
                   scores |-> << get_weighted_score(k1, c),
                                 get_weighted_score(k2, c) >>]
    /\ UNCHANGED << jobs, machines, constraint, policy, all_jobs_sorted, idx,
                    compatible, current_time, current_product, machine_loads,
                    schedule, violations, last, dropped, state >>

\* best_schedule, explanation = select_best_schedule(candidates, constraint);
\* "supplied" is the list as the caller built it, "candidates" the same list
\* after the call
SelectBestSchedule ==
    /\ pc = "idle"
    /\ pc' = "returned"
    /\ \E candidates \in CandidateLists, c \in WeightedConstraints :
          call' = [op |-> "select_best_schedule", supplied |-> candidates,
                   candidates |-> CandidatesAfterSelection(candidates, c),
                   constraint |-> c,
                   result |-> SelectedSchedule(candidates, c)]
    /\ UNCHANGED << jobs, machines, constraint, policy, all_jobs_sorted, idx,
                    compatible, current_time, current_product, machine_loads,
                    schedule, violations, last, dropped, state >>

\* arguments of Job(...): processing times around 0, priorities inside and
\* outside {rush, normal}, machine option lists of 0, 1 and 2 ids
ProductTypes == {"P_A", "P_B"}
ProcessingTimes == {-1, 0, 1, 45}
Priorities == {"rush", "normal", "urgent", "Rush", ""}
MachineOptions == {{}, {"M1"}, {"M1", "M2"}}

\* job = Job(job_id, product_type, processing_time, due_time, priority, machine_options)
ConstructJob ==
    /\ pc = "idle"
    /\ pc' = "returned"
    /\ \E product \in ProductTypes, ptime \in ProcessingTimes,
          due \in {time(12, 0), time(14, 0)}, prio \in Priorities,
          options \in MachineOptions :
          LET job == Job("J9", product, ptime, due, prio, options)
          IN  call' = [op |-> "Job", job |-> job, result |-> post_init(job)]
    /\ UNCHANGED << jobs, machines, constraint, policy, all_jobs_sorted, idx,
                    compatible, current_time, current_product, machine_loads,
                    schedule, violations, last, dropped, state >>

\* setup matrices: each directed key between P_A and P_B absent or present
\* with a value that is none of the defaults
SetupKeys == {"P_A->P_A", "P_A->P_B", "P_B->P_A", "P_B->P_B"}
SetupMatrices ==
    UNION { [K -> {7, 45}] : K \in SUBSET SetupKeys }

\* product types asked for; P_C has no entry in any matrix
SetupProducts == {"P_A", "P_B", "P_C"}

\* constraint.get_setup_time(from_product, to_product)
GetSetupTime ==
    /\ pc = "idle"
    /\ pc' = "returned"
    /\ \E st \in SetupMatrices, from_product \in SetupProducts,
          to_product \in SetupProducts :
          LET c == Constraint(time(8, 0), time(16, 0), 0, st)
          IN  call' = [op |-> "get_setup_time", constraint |-> c,
                       from_product |-> from_product, to_product |-> to_product,
                       result |-> get_setup_time(c, from_product, to_product)]
    /\ UNCHANGED << jobs, machines, constraint, policy, all_jobs_sorted, idx,
                    compatible, current_time, current_product, machine_loads,
                    schedule, violations, last, dropped, state >>

\* downtime windows of the machine asked: those of the inputs, an empty one
\* and one whose end lies before its start
AvailabilityWindows ==
    DowntimeUniverse \cup { DowntimeWindow(time(12, 0), time(12, 0)),
                            DowntimeWindow(time(23, 0), time(1, 0)) }

\* times around the ends of the windows
TimeSlots ==
    { time(0, 30), time(8, 0), time(9, 59), time(10, 0), time(10, 30),
      time(11, 29), time(11, 30), time(12, 0), time(22, 40), time(22, 59),
      time(23, 0), time(23, 30), time(23, 50) }

\* machine.is_available_at(time_slot)
IsAvailableAt ==
    /\ pc = "idle"
    /\ pc' = "returned"
    /\ \E dts \in InjSeqs(AvailabilityWindows, MaxDowntime), time_slot \in TimeSlots :
          LET machine == Machine("M1", ProductTypes, dts)
          IN  call' = [op |-> "is_available_at", machine |-> machine,
                       time_slot |-> time_slot,
                       result |-> is_available_at(machine, time_slot)]
    /\ UNCHANGED << jobs, machines, constraint, policy, all_jobs_sorted, idx,
                    compatible, current_time, current_product, machine_loads,
                    schedule, violations, last, dropped, state >>

\* start times of the assignments a caller appends, each used once in a
\* schedule, so that the chronological order of a machine's list is defined
KpiStarts == { time(8, 0), time(10, 0), time(12, 0) }

KpiJobs == { J1, J3 }

\* machine ids the caller writes into assignments; M9 is in no machine list
KpiMachineIds == {"M1", "M2", "M9"}

KpiSetups == {0, 30}

\* M3 is a machine of the list that gets no assignment
KpiMachineLists ==
    { << Machine("M1", {"P_A", "P_B"}, << >>) >>,
      << Machine("M1", {"P_A", "P_B"}, << >>), Machine("M2", {"P_A", "P_B"}, << >>) >>,
      << Machine("M3", {"P_A", "P_B"}, << >>), Machine("M1", {"P_A", "P_B"}, << >>),
         Machine("M2", {"P_A", "P_B"}, << >>) >> }

RECURSIVE AppendAll(_, _)
\* schedule.add_assignment(a) for every a of the list, in list order
AppendAll(sched, as) ==
    IF as = << >> THEN sched
    ELSE AppendAll(add_assignment(sched, Head(as)), Tail(as))

\* kpi = schedule.calculate_kpis(machines, constraint) on a schedule the
\* caller filled with add_assignment
CalculateKpisCall ==
    /\ pc = "idle"
    /\ pc' = "returned"
    /\ \E starts \in InjSeqs(KpiStarts, MaxKpiAssignments), ms \in KpiMachineLists :
          \E js \in [DOMAIN starts -> KpiJobs],
             ids \in [DOMAIN starts -> KpiMachineIds],
             setups \in [DOMAIN starts -> KpiSetups] :
             LET as == [i \in DOMAIN starts |->
                          JobAssignment(js[i], ids[i], starts[i],
                                        time(starts[i].hour + 1, 30), setups[i])]
                 sched == AppendAll(EmptySchedule, as)
             IN  call' = [op |-> "calculate_kpis", appended |-> as,
                          schedule |-> sched,
                          machines |-> ms, constraint |-> DayShift,
                          result |-> calculate_kpis(sched, ms, DayShift)]
    /\ UNCHANGED << jobs, machines, constraint, policy, all_jobs_sorted, idx,
                    compatible, current_time, current_product, machine_loads,
                    schedule, violations, last, dropped, state >>

NextK ==
    \/ GetWeightedScore
    \/ SelectBestSchedule
    \/ ConstructJob
    \/ GetSetupTime
    \/ IsAvailableAt
    \/ CalculateKpisCall

SpecK == InitK /\ [][NextK]_vars

-----------------------------------------------------------------------------
(* rebalance_schedule on Schedules a caller passes in *)

\* Schedules to rebalance: an empty one, one that loads M1 and one that loads
\* M2 more than M1
InputSchedules ==
    { EmptySchedule,
      AppendAll(EmptySchedule,
                << JobAssignment(J1, "M1", time(8, 0), time(8, 45), 0) >>),
      AppendAll(EmptySchedule,
                << JobAssignment(J6, "M2", time(8, 0), time(8, 30), 0),
                   JobAssignment(J1, "M1", time(8, 0), time(8, 45), 0),
                   JobAssignment(J3, "M2", time(8, 30), time(10, 0), 30) >>) }

\* a policy run on the further inputs; the call of rebalance_schedule names
\* the Schedule it is given
InitR ==
    /\ jobs \in InjSeqs(FurtherJobUniverse, MaxJobs) \ { << >> }
    /\ machines \in FurtherMachineLists
    /\ constraint \in {DirectedShift, LateShift}
    /\ policy \in Policies
    /\ pc = "start"
    /\ all_jobs_sorted = << >>
    /\ idx = 0
    /\ compatible = << >>
    /\ current_time = << >>
    /\ current_product = << >>
    /\ machine_loads = << >>
    /\ schedule = EmptySchedule
    /\ violations = << >>
    /\ last = PlainStep("none", "")
    /\ dropped = {}
    /\ state = NoState
    /\ call \in IF policy = "bottleneck"
                THEN { [op |-> "rebalance_schedule", schedule |-> s] : s \in InputSchedules }
                ELSE { NoCall }

SpecR == InitR /\ [][Next]_vars

-----------------------------------------------------------------------------
(* The validator on schedules a caller builds with add_assignment *)

ValidatorJobs == << J1, J3 >>

ValidatorMachines ==
    { << Machine("M1", {"P_A", "P_B"}, << D1 >>), Machine("M2", c, << >>) >>
      : c \in { {"P_A", "P_B"}, {"P_A"} } }

\* the day shift without and with 30 minutes of overtime
ValidatorConstraints ==
    { DayShift, Constraint(time(8, 0), time(16, 0), 30, ScenarioSetup) }

\* machine ids a caller may write into an assignment; M9 is in no list
AssignableMachineIds == {"M1", "M2", "M9"}

StartTimes == { time(9, 0), time(11, 30) }
EndTimes == { time(10, 0), time(12, 30), time(16, 30) }

InitV ==
    /\ jobs = ValidatorJobs
    /\ machines \in ValidatorMachines
    /\ constraint \in ValidatorConstraints
    /\ policy = "none"
    /\ pc = "build"
    /\ all_jobs_sorted = << >>
    /\ idx = 0
    /\ compatible = << >>
    /\ current_time = << >>
    /\ current_product = << >>
    /\ machine_loads = << >>
    /\ schedule = EmptySchedule
    /\ violations = << >>
    /\ last = PlainStep("none", "")
    /\ dropped = {}
    /\ state = NoState
    /\ call = NoCall

\* schedule.add_assignment(JobAssignment(...)) by the caller
AddAssignment ==
    /\ pc = "build"
    /\ Len(get_all_jobs(schedule)) < MaxAssignments
    /\ \E i \in DOMAIN jobs, m \in AssignableMachineIds,
          s \in StartTimes, e \in EndTimes :
          schedule' = add_assignment(schedule, JobAssignment(jobs[i], m, s, e, 0))
    /\ UNCHANGED << jobs, machines, constraint, policy, pc, all_jobs_sorted, idx,
                    compatible, current_time, current_product, machine_loads,
                    violations, last, dropped, state, call >>

\* schedule.calculate_kpis(machines, constraint) by the caller, once
CalculateKpis ==
    /\ pc = "build"
    /\ schedule.kpis = NoKPI
    /\ schedule' = [schedule EXCEPT !.kpis =
                       calculate_kpis(schedule, machines, constraint)]
    /\ UNCHANGED << jobs, machines, constraint, policy, pc, all_jobs_sorted, idx,
                    compatible, current_time, current_product, machine_loads,
                    violations, last, dropped, state, call >>

\* a validation that writes the number of violations into the KPI of the
\* schedule, as Schedule.validate does
ValidateScheduleRecording ==
    /\ pc = "build"
    /\ violations' = validate_schedule(schedule, jobs, machines, constraint)
    /\ call' = [op |-> "validate_schedule",
                is_valid |-> is_valid(validate_schedule(schedule, jobs, machines,
                                                        constraint))]
    /\ schedule' = IF schedule.kpis = NoKPI THEN schedule
                   ELSE [schedule EXCEPT !.kpis.num_violations =
                            Len(validate_schedule(schedule, jobs, machines,
                                                  constraint))]
    /\ pc' = "validated"
    /\ UNCHANGED << jobs, machines, constraint, policy, all_jobs_sorted, idx,
                    compatible, current_time, current_product, machine_loads,
                    last, dropped, state >>

\* is_valid, violations, report = validate_schedule(schedule, jobs, machines,
\* constraint)
ValidateSchedule ==
    /\ pc = "build"
    /\ violations' = validate_schedule(schedule, jobs, machines, constraint)
    /\ call' = [op |-> "validate_schedule",
                is_valid |-> is_valid(validate_schedule(schedule, jobs, machines,
                                                        constraint))]
    /\ pc' = "validated"
    /\ UNCHANGED << jobs, machines, constraint, policy, all_jobs_sorted, idx,
                    compatible, current_time, current_product, machine_loads,
                    schedule, last, dropped, state >>

\* num_rush_violations, report = check_rush_job_priority(schedule, constraint)
CheckRushJobPriority ==
    /\ pc = "validated"
    /\ call' = [op |-> "check_rush_job_priority",
                is_valid |-> call.is_valid,
                num_rush_violations |-> check_rush_job_priority(schedule)]
    /\ pc' = "checked"
    /\ UNCHANGED << jobs, machines, constraint, policy, all_jobs_sorted, idx,
                    compatible, current_time, current_product, machine_loads,
                    schedule, violations, last, dropped, state >>

NextV ==
    \/ AddAssignment
    \/ CalculateKpis
    \/ ValidateSchedule
    \/ CheckRushJobPriority

SpecV == InitV /\ [][NextV]_vars

-----------------------------------------------------------------------------
(* Properties *)

AllAssignments == get_all_jobs(schedule)

Returned == pc \in {"done", "validated"}

\* the assignments of the schedule that carry the job id
AssignmentsOf(job_id) ==
    { i \in DOMAIN AllAssignments : AllAssignments[i].job.job_id = job_id }

\* the machine of the caller's list with this id
MachinesWithId(machine_id) ==
    { i \in DOMAIN machines : machines[i].machine_id = machine_id }

\* [s1, e1) and [s2, e2), in minutes, as overlaps_with understands overlap
MinutesOverlap(s1, e1, s2, e2) == s1 < e2 /\ s2 < e1

\* C1: no assignment of a Batching or Bottleneck schedule overlaps, in the
\* sense of DowntimeWindow.overlaps_with, a downtime window of its machine.
C1_NoDowntimeOverlap ==
    policy \in {"batching", "bottleneck"} =>
        \A i \in DOMAIN AllAssignments :
            \A k \in MachinesWithId(AllAssignments[i].machine_id) :
                \A d \in DOMAIN machines[k].downtime_windows :
                    ~ MinutesOverlap(Minutes(AllAssignments[i].start_time),
                                     Minutes(AllAssignments[i].end_time),
                                     Minutes(machines[k].downtime_windows[d].start_time),
                                     Minutes(machines[k].downtime_windows[d].end_time))

\* a returned Batching/Bottleneck schedule whose last assignment was placed
\* behind a downtime window after the retry
C1_Witness ==
    /\ policy \in {"batching", "bottleneck"}
    /\ pc = "done"
    /\ last.kind = "finish"
    /\ \E i \in DOMAIN AllAssignments :
          \E k \in MachinesWithId(AllAssignments[i].machine_id) :
              \E d \in DOMAIN machines[k].downtime_windows :
                  Minutes(AllAssignments[i].start_time) >=
                      Minutes(machines[k].downtime_windows[d].end_time)

\* C2: scheduling-time infeasibility is never an error: a run that left a
\* job without assignment (no compatible machine, or every compatible machine
\* rejected it) goes on and returns a Schedule without raising, and the
\* dropped job has no assignment in it.
C2_InfeasibilityNeverRaises ==
    /\ dropped # {} => pc # "raised"
    /\ Returned => \A id \in dropped : AssignmentsOf(id) = {}

\* C3: validate_schedule reports a missing-job violation iff some input job
\* id appears in no assignment; every job the run dropped is reported.
C3_MissingJobsReported ==
    pc = "validated" =>
        LET reported == { v \in DOMAIN violations : violations[v].kind = "missing" }
            unassigned == { jobs[j].job_id : j \in { j \in DOMAIN jobs :
                                AssignmentsOf(jobs[j].job_id) = {} } }
        IN  /\ (reported # {}) <=> (unassigned # {})
            /\ Cardinality(reported) <= 1
            /\ \A v \in reported : violations[v].missing = unassigned
            /\ dropped \subseteq unassigned
            /\ dropped # {} => reported # {}

\* a validated run that dropped a job and assigned another
C3_Witness ==
    /\ pc = "validated"
    /\ dropped # {}
    /\ AllAssignments # << >>
    /\ \E v \in DOMAIN violations : violations[v].kind = "missing"

\* C4: every assignment is on a machine of the list that can produce the
\* job's product type and that the job's machine_options name.
C4_CompatibleMachine ==
    \A i \in DOMAIN AllAssignments :
        /\ AllAssignments[i].machine_id \in AllAssignments[i].job.machine_options
        /\ MachinesWithId(AllAssignments[i].machine_id) # {}
        /\ \A k \in MachinesWithId(AllAssignments[i].machine_id) :
               AllAssignments[i].job.product_type \in machines[k].capabilities

\* a returned schedule with a job assigned although the list holds a capable
\* machine outside its machine_options, and a job that names a machine
\* unable to produce it
C4_Witness ==
    /\ Returned
    /\ \E i \in DOMAIN AllAssignments :
          /\ \E k \in DOMAIN machines :
                /\ machines[k].machine_id \notin AllAssignments[i].job.machine_options
                /\ AllAssignments[i].job.product_type \in machines[k].capabilities
    /\ \E j \in DOMAIN jobs :
          \E k \in DOMAIN machines :
              /\ machines[k].machine_id \in jobs[j].machine_options
              /\ jobs[j].product_type \notin machines[k].capabilities

\* the downtime windows of the machine a step worked on
WindowsOf(machine_id) == MachineById(machine_id).downtime_windows

\* the windows of the machine that the proposed window from the cursor overlaps
ConflictsFrom(machine_id, cursor, setup_time, processing_time) ==
    { d \in DOMAIN WindowsOf(machine_id) :
        MinutesOverlap(Minutes(ProposedStart(cursor, setup_time)),
                       Minutes(ProposedEnd(cursor, setup_time, processing_time)),
                       Minutes(WindowsOf(machine_id)[d].start_time),
                       Minutes(WindowsOf(machine_id)[d].end_time)) }

LeastOf(S) == CHOOSE x \in S : \A y \in S : x <= y

\* C5: one attempt of a job on a candidate machine advances the cursor at
\* most once.  When the first window overlaps a downtime window the cursor
\* goes to the end of the first such window; when the recomputed window still
\* overlaps a window, nothing is committed, the cursor stays at that end and
\* the next candidate is tried (the job is left out after the last one).
C5_AttemptStep ==
    (pc = "try" /\ pc' # "raised") =>
        LET m == Head(compatible)
            job == CurrentJob
            setup_time == SetupTime(policy, constraint, current_product[m],
                                    job.product_type)
            first == ConflictsFrom(m, current_time[m], setup_time, job.processing_time)
            skipped == WindowsOf(m)[LeastOf(first)].end_time
            second == ConflictsFrom(m, skipped, setup_time, job.processing_time)
        IN  /\ last'.advances <= 1
            /\ first = {} =>
                  /\ last'.kind = "commit"
                  /\ current_time'[m] = ProposedEnd(current_time[m], setup_time,
                                                    job.processing_time)
            /\ (first # {} /\ second = {}) =>
                  /\ last'.kind = "commit"
                  /\ current_time'[m] = ProposedEnd(skipped, setup_time,
                                                    job.processing_time)
            /\ (first # {} /\ second # {}) =>
                  /\ last'.kind = "reject"
                  /\ schedule' = schedule
                  /\ current_time' = [current_time EXCEPT ![m] = skipped]
                  /\ IF Tail(compatible) # << >>
                     THEN /\ pc' = "try"
                          /\ idx' = idx
                          /\ compatible' = Tail(compatible)
                     ELSE /\ pc' = "run"
                          /\ idx' = idx + 1
                          /\ AssignmentsOf(job.job_id) = {}

C5_SingleRetry == [][C5_AttemptStep]_vars

\* a machine was rejected after one retry and another candidate is next
C5_Witness ==
    /\ pc = "try"
    /\ last.kind = "reject"
    /\ last.advances = 1
    /\ compatible # << >>

\* the assignment a "commit" step appended
LastCommitted == LET js == get_machine_jobs(schedule, last.machine_id)
                 IN  js[Len(js)]

\* the windows the first proposed window of the last step overlapped
LastFirstConflicts ==
    { d \in DOMAIN WindowsOf(last.machine_id) :
        MinutesOverlap(Minutes(last.first_start), Minutes(last.first_end),
                       Minutes(WindowsOf(last.machine_id)[d].start_time),
                       Minutes(WindowsOf(last.machine_id)[d].end_time)) }

InputIndex(job) == CHOOSE i \in DOMAIN jobs : jobs[i] = job

\* position in the caller's list of the first job of the product type
FirstSeen(product_type) ==
    LeastOf({ i \in DOMAIN jobs : jobs[i].product_type = product_type })

IsPermutationOfJobs(order) ==
    /\ Len(order) = Len(jobs)
    /\ Range(order) = Range(jobs)

\* the three-job scenario of the specification
ScenarioJobs == << J1, J2, J3 >>

ScenarioMachines ==
    /\ Len(machines) = 2
    /\ \A k \in DOMAIN machines : machines[k].capabilities = {"P_A", "P_B"}

\* adjacent pairs of the machine lists whose product types are the same
SameTypePairs ==
    Sum([m \in DOMAIN schedule.assignments |->
           Cardinality({ i \in 2..Len(schedule.assignments[m].jobs) :
               schedule.assignments[m].jobs[i].job.product_type =
               schedule.assignments[m].jobs[i - 1].job.product_type })])

C8_BottleneckOrder ==
    (policy = "bottleneck" /\ pc # "start") =>
        /\ IsPermutationOfJobs(all_jobs_sorted)
        /\ \A i, j \in DOMAIN all_jobs_sorted :
              i < j =>
                LET a == all_jobs_sorted[i]
                    b == all_jobs_sorted[j]
                IN  /\ is_rush(b) => is_rush(a)
                    /\ a.priority = b.priority =>
                          a.processing_time >= b.processing_time
                    /\ (a.priority = b.priority
                        /\ a.processing_time = b.processing_time) =>
                          InputIndex(a) < InputIndex(b)

\* a Bottleneck run over a list that is not in processing order: a normal job
\* ahead of a rush job and a shorter job ahead of a longer one
C8_Witness ==
    /\ policy = "bottleneck"
    /\ pc = "done"
    /\ Len(jobs) = 3
    /\ ~ is_rush(jobs[1]) /\ is_rush(jobs[3])
    /\ jobs[1].processing_time < jobs[2].processing_time
    /\ all_jobs_sorted # jobs

\* C9: Baseline puts every job that has a compatible machine on the first
\* compatible machine of the machine list, whatever the loads and downtime;
\* a job without a compatible machine gets no assignment.  In the scenario J1
\* and J2 land on the first machine.
C9_BaselineFirstCompatible ==
    (policy = "baseline" /\ Returned) =>
        /\ \A i \in DOMAIN jobs :
              IF CompatibleMachines(jobs[i]) = << >>
              THEN AssignmentsOf(jobs[i].job_id) = {}
              ELSE /\ Cardinality(AssignmentsOf(jobs[i].job_id)) = 1
                   /\ \A a \in AssignmentsOf(jobs[i].job_id) :
                         AllAssignments[a].machine_id =
                             CompatibleMachines(jobs[i])[1].machine_id
        /\ (jobs = ScenarioJobs /\ ScenarioMachines) =>
              \A a \in AssignmentsOf("J1") \cup AssignmentsOf("J2") :
                  AllAssignments[a].machine_id = machines[1].machine_id

\* Baseline, two capable machines: both jobs of a type on the first one, the
\* second machine idle, and one of the assignments inside a downtime window
C9_Witness ==
    /\ policy = "baseline"
    /\ pc = "done"
    /\ Len(machines) = 2
    /\ \E i, j \in DOMAIN jobs :
          /\ i # j
          /\ Len(CompatibleMachines(jobs[i])) = 2
          /\ Len(CompatibleMachines(jobs[j])) = 2
          /\ \A a \in AssignmentsOf(jobs[i].job_id) \cup AssignmentsOf(jobs[j].job_id) :
                AllAssignments[a].machine_id = machines[1].machine_id
    /\ \E k \in DOMAIN AllAssignments :
          \E d \in Range(WindowsOf(AllAssignments[k].machine_id)) :
              overlaps_with(d, AllAssignments[k].start_time, AllAssignments[k].end_time)

\* the half-open intervals [s1, e1) and [s2, e2) have a minute in common
Intersect(s1, e1, s2, e2) ==
    \E t \in {s1, s2} : s1 <= t /\ t < e1 /\ s2 <= t /\ t < e2

\* pairs (earlier, later) of one machine's list, by position
PairsOn(m) == { p \in (DOMAIN schedule.assignments[m].jobs)
                        \X (DOMAIN schedule.assignments[m].jobs) : p[1] < p[2] }

IntersectingPairs(m) ==
    { p \in PairsOn(m) :
        LET a == schedule.assignments[m].jobs[p[1]]
            b == schedule.assignments[m].jobs[p[2]]
        IN  Intersect(Minutes(a.start_time), Minutes(a.end_time),
                      Minutes(b.start_time), Minutes(b.end_time)) }

CrossingPairs(m) ==
    { p \in PairsOn(m) :
        LET a == schedule.assignments[m].jobs[p[1]]
            b == schedule.assignments[m].jobs[p[2]]
        IN  /\ Minutes(a.start_time) < Minutes(b.end_time)
            /\ Minutes(b.start_time) < Minutes(a.end_time) }

OverlapsReported == { k \in DOMAIN violations : violations[k].kind = "overlap" }

\* C10: the validator reports an overlap violation if and only if two
\* assignments of one machine have intersecting half-open intervals, one
\* violation for each intersecting pair.
C10_OverlapIffIntersect ==
    pc = "validated" =>
        Cardinality(OverlapsReported) =
            Sum([m \in DOMAIN schedule.assignments |->
                    Cardinality(IntersectingPairs(m))])

\* C10 (amended): the validator reports one overlap violation for each pair
\* of assignments of one machine in which each starts before the other ends;
\* for assignments that start before they end this is the intersection of
\* their half-open intervals.
C10_OverlapIffCrossing ==
    pc = "validated" =>
        /\ Cardinality(OverlapsReported) =
              Sum([m \in DOMAIN schedule.assignments |->
                      Cardinality(CrossingPairs(m))])
        /\ \A m \in DOMAIN schedule.assignments :
              \A p \in PairsOn(m) :
                  LET a == schedule.assignments[m].jobs[p[1]]
                      b == schedule.assignments[m].jobs[p[2]]
                  IN  (/\ Minutes(a.start_time) < Minutes(a.end_time)
                       /\ Minutes(b.start_time) < Minutes(b.end_time)) =>
                          (p \in CrossingPairs(m) <=> p \in IntersectingPairs(m))

\* a validated schedule with an overlap violation between two assignments
\* that both start before they end
C10_Witness ==
    /\ pc = "validated"
    /\ OverlapsReported # {}
    /\ \E m \in DOMAIN schedule.assignments :
          \E p \in CrossingPairs(m) :
              /\ Minutes(schedule.assignments[m].jobs[p[1]].start_time)
                    < Minutes(schedule.assignments[m].jobs[p[1]].end_time)
              /\ Minutes(schedule.assignments[m].jobs[p[2]].start_time)
                    < Minutes(schedule.assignments[m].jobs[p[2]].end_time)

\* violations of one kind in the validator's list
ViolationsOfKind(kind) == { k \in DOMAIN violations : violations[k].kind = kind }

\* the machine of the list that an assignment names (the first with that id),
\* as a set: empty when the list has none
MachineOf(a) ==
    { machines[i] : i \in { i \in DOMAIN machines :
          /\ machines[i].machine_id = a.machine_id
          /\ \A j \in 1..(i - 1) : machines[j].machine_id # a.machine_id } }

\* job ids of the job list that no assignment carries
UncoveredJobIds ==
    { jobs[i].job_id : i \in DOMAIN jobs } \
    { AllAssignments[k].job.job_id : k \in DOMAIN AllAssignments }

PastShiftEnd ==
    { k \in DOMAIN AllAssignments :
        Minutes(AllAssignments[k].end_time) >
            Minutes(constraint.shift_end) + constraint.max_overtime_minutes }

NotCapable ==
    { k \in DOMAIN AllAssignments :
        \E m \in MachineOf(AllAssignments[k]) :
            AllAssignments[k].job.product_type \notin m.capabilities }

\* pairs (assignment, downtime window of its machine) that overlap
InDowntime ==
    { p \in (DOMAIN AllAssignments) \X (1..Cardinality(DowntimeUniverse)) :
        \E m \in MachineOf(AllAssignments[p[1]]) :
            /\ p[2] \in DOMAIN m.downtime_windows
            /\ MinutesOverlap(Minutes(AllAssignments[p[1]].start_time),
                              Minutes(AllAssignments[p[1]].end_time),
                              Minutes(m.downtime_windows[p[2]].start_time),
                              Minutes(m.downtime_windows[p[2]].end_time)) }

\* pairs of assignments of one machine that overlap
OverlappingPairs ==
    { p \in (DOMAIN AllAssignments) \X (DOMAIN AllAssignments) :
        /\ p[1] < p[2]
        /\ AllAssignments[p[1]].machine_id = AllAssignments[p[2]].machine_id
        /\ MinutesOverlap(Minutes(AllAssignments[p[1]].start_time),
                          Minutes(AllAssignments[p[1]].end_time),
                          Minutes(AllAssignments[p[2]].start_time),
                          Minutes(AllAssignments[p[2]].end_time)) }

LateRush ==
    { k \in DOMAIN AllAssignments :
        /\ AllAssignments[k].job.priority = "rush"
        /\ Minutes(AllAssignments[k].end_time) >
               Minutes(AllAssignments[k].job.due_time) }

C12_RushViolationsCounted ==
    pc = "checked" =>
        /\ Cardinality(ViolationsOfKind("rush")) = Cardinality(LateRush)
        /\ \A id \in { jobs[i].job_id : i \in DOMAIN jobs }, m \in AssignableMachineIds :
              Cardinality({ k \in ViolationsOfKind("rush") :
                              /\ violations[k].job_id = id
                              /\ violations[k].machine_id = m })
              = Cardinality({ k \in LateRush :
                              /\ AllAssignments[k].job.job_id = id
                              /\ AllAssignments[k].machine_id = m })
        /\ call.num_rush_violations = Cardinality(LateRush)

\* a late rush assignment next to a late normal one
C12_Witness ==
    /\ pc = "checked"
    /\ call.num_rush_violations = 1
    /\ \E k \in DOMAIN AllAssignments :
          /\ AllAssignments[k].job.priority = "normal"
          /\ is_late(AllAssignments[k])

\* the candidate schedules of the pipeline that the validator accepted
AcceptedSchedules ==
    (IF state.batching_violations = << >> THEN {state.batching_schedule} ELSE {})
    \cup
    (IF state.bottleneck_violations = << >> THEN {state.bottleneck_schedule} ELSE {})

\* C13: a pipeline that ends "completed" returns one of the candidate
\* schedules (Batching, Bottleneck) that the validator accepted with no
\* violation, and none of the accepted candidates has a lower weighted score;
\* when the validator accepted neither, the pipeline ends "failed" and
\* final_schedule stays unset.
C13_PipelineSelection ==
    pc = "END" =>
        /\ state.status \in {"completed", "failed"}
        /\ state.status = "completed" =>
              /\ state.final_schedule \in AcceptedSchedules
              /\ \A x \in AcceptedSchedules :
                    get_weighted_score(state.final_schedule.kpis, constraint)
                        <= get_weighted_score(x.kpis, constraint)
        /\ AcceptedSchedules = {} =>
              /\ state.status = "failed"
              /\ state.final_schedule = NoSchedule

\* both candidates accepted and the second one, Bottleneck, selected for its
\* strictly lower score
C13_Witness ==
    /\ pc = "END"
    /\ state.status = "completed"
    /\ state.batching_violations = << >>
    /\ state.bottleneck_violations = << >>
    /\ state.final_schedule = state.bottleneck_schedule
    /\ get_weighted_score(state.bottleneck_schedule.kpis, constraint)
           < get_weighted_score(state.batching_schedule.kpis, constraint)

\* the score of the i-th candidate of the last select_best_schedule call
CandidateScore(i) ==
    get_weighted_score(call.candidates[i].schedule.kpis, call.constraint)

\* C14: for a non-empty candidate list in which every candidate carries a
\* KPI, select_best_schedule returns the candidate of minimal weighted score
\* and, among several of minimal score, the one that is first in the list.
C14_SelectsFirstMinimal ==
    (/\ call.op = "select_best_schedule"
     /\ call.candidates # << >>
     /\ \A i \in DOMAIN call.candidates : call.candidates[i].schedule.kpis # NoKPI) =>
        \E i \in DOMAIN call.candidates :
            /\ call.result = call.candidates[i].schedule
            /\ \A j \in DOMAIN call.candidates :
                  /\ CandidateScore(i) <= CandidateScore(j)
                  /\ j < i => CandidateScore(j) > CandidateScore(i)

\* the first of two different candidates of equal, minimal score is returned
C14_Witness ==
    /\ call.op = "select_best_schedule"
    /\ Len(call.candidates) = 2
    /\ call.candidates[1].schedule.kpis # NoKPI
    /\ call.candidates[2].schedule.kpis # NoKPI
    /\ call.supplied[1].schedule # call.supplied[2].schedule
    /\ CandidateScore(1) = CandidateScore(2)
    /\ call.result = call.candidates[1].schedule

\* C15: under one Constraint, a KPI without violations always gets a
\* strictly lower weighted score than a KPI with one or more violations.
C15_ValidOutranksInvalid ==
    call.op = "get_weighted_score" =>
        \A i, j \in {1, 2} :
            (call.kpis[i].num_violations = 0 /\ call.kpis[j].num_violations >= 1) =>
                call.scores[i] < call.scores[j]

NonNegativeWeights(c) ==
    /\ c.tardiness_weight >= 0
    /\ c.setup_weight >= 0
    /\ c.utilization_weight >= 0

C17_JobConstruction ==
    call.op = "Job" =>
        LET bad == \/ call.job.processing_time <= 0
                   \/ Cardinality(call.job.machine_options) = 0
                   \/ ~ (call.job.priority = "rush" \/ call.job.priority = "normal")
        IN  /\ bad => call.result = Raised("ValueError")
            /\ ~ bad => call.result = call.job

\* a construction that fails for the processing time 0 alone
C17_Witness ==
    /\ call.op = "Job"
    /\ call.job.processing_time = 0
    /\ call.job.priority = "rush"
    /\ call.job.machine_options = {"M1", "M2"}
    /\ call.result = Raised("ValueError")

\* C18: get_setup_time(from, to) returns the entry stored under the directed
\* key "from->to" when there is one, and otherwise 5 if from = to and 30 if
\* not; whether and what the matrix holds for "to->from" does not matter.
C18_DirectedSetupTime ==
    call.op = "get_setup_time" =>
        LET st == call.constraint.setup_times
            present == { k \in DOMAIN st :
                           k = call.from_product \o "->" \o call.to_product }
        IN  /\ \A k \in present : call.result = st[k]
            /\ present = {} =>
                  call.result = (IF call.from_product = call.to_product
                                 THEN 5 ELSE 30)

\* the matrix holds the opposite direction only, and the default is returned
C18_Witness ==
    /\ call.op = "get_setup_time"
    /\ call.from_product = "P_A"
    /\ call.to_product = "P_B"
    /\ "P_A->P_B" \notin DOMAIN call.constraint.setup_times
    /\ "P_B->P_A" \in DOMAIN call.constraint.setup_times
    /\ call.constraint.setup_times["P_B->P_A"] = 7
    /\ call.result = 30

\* t lies in [w.start_time, w.end_time), by comparison of the time objects
InWindow(w, t) == ~ TimeGT(w.start_time, t) /\ TimeGT(w.end_time, t)

\* C19: is_available_at(t) is False if and only if t lies in the half-open
\* interval [start_time, end_time) of at least one downtime window of the
\* machine.
C19_AvailableIffOutsideDowntime ==
    call.op = "is_available_at" =>
        ( (call.result = FALSE) <=>
          \E i \in DOMAIN call.machine.downtime_windows :
              InWindow(call.machine.downtime_windows[i], call.time_slot) )

\* the time asked is the end of the first window and the start of the second
C19_Witness ==
    /\ call.op = "is_available_at"
    /\ Len(call.machine.downtime_windows) = 2
    /\ call.time_slot = call.machine.downtime_windows[1].end_time
    /\ call.time_slot = call.machine.downtime_windows[2].start_time
    /\ TimeGT(call.machine.downtime_windows[2].end_time, call.time_slot)
    /\ call.result = FALSE

\* the jobs have pairwise different product types, and there are at least as
\* many machines as jobs, all without downtime and compatible with every job
DisjointTypesAmpleCapacity ==
    /\ \A i, j \in DOMAIN jobs :
          i # j => jobs[i].product_type # jobs[j].product_type
    /\ Len(machines) >= Len(jobs)
    /\ \A k \in DOMAIN machines :
          /\ machines[k].downtime_windows = << >>
          /\ \A i \in DOMAIN jobs :
                /\ can_produce(machines[k], jobs[i].product_type)
                /\ can_run_on(jobs[i], machines[k].machine_id)

C21_InputsUnchanged ==
    [][jobs' = jobs /\ machines' = machines /\ constraint' = constraint]_vars

\* a returned run that processed the jobs in another order than the caller's
\* list and moved a cursor past a downtime window of a machine
C21_Witness ==
    /\ pc = "done"
    /\ all_jobs_sorted # jobs
    /\ Len(AllAssignments) = Len(jobs)
    /\ \E k \in DOMAIN machines, a \in DOMAIN AllAssignments :
          /\ machines[k].downtime_windows # << >>
          /\ AllAssignments[a].machine_id = machines[k].machine_id
          /\ AllAssignments[a].start_time = machines[k].downtime_windows[1].end_time

\* C22: validate_schedule and check_rush_job_priority leave the Schedule
\* they inspect as it was: assignments, KPI (num_violations included) and
\* explanation, with or without violations.
C22_ValidatorLeavesSchedule ==
    [][(pc' \in {"validated", "checked"} /\ pc' # pc) => schedule' = schedule]_vars

\* both calls made on a schedule with violations whose KPI has been computed
C22_Witness ==
    /\ pc = "checked"
    /\ violations # << >>
    /\ call.num_rush_violations > 0
    /\ schedule.kpis # NoKPI
    /\ schedule.kpis.num_violations = 0
    /\ Len(AllAssignments) = 2

\* processing_time + setup_time_before, summed over the assignments the
\* schedule holds for the machine
CommittedLoad(machine_id) ==
    Sum([i \in DOMAIN get_machine_jobs(schedule, machine_id) |->
           get_machine_jobs(schedule, machine_id)[i].job.processing_time
           + get_machine_jobs(schedule, machine_id)[i].setup_time_before])

\* position of the machine in the caller's machine list
MachineIndex(machine_id) ==
    CHOOSE k \in DOMAIN machines : machines[k].machine_id = machine_id

\* C23: in Batching and Bottleneck a machine's load is, at every point of
\* the run, the sum of processing_time + setup_time_before over the
\* assignments committed to it so far, and the machine tried first for a job
\* is a compatible machine of minimal load, the earliest of the machine list
\* among those of minimal load.
C23_LeastLoadedFirst ==
    (policy \in {"batching", "bottleneck"} /\ pc \in {"run", "try", "done"}) =>
        /\ \A m \in MachineIds : machine_loads[m] = CommittedLoad(m)
        /\ (pc = "try" /\ last.kind = "candidates") =>
              LET first == Head(compatible)
                  ids == { CompatibleMachines(CurrentJob)[k].machine_id :
                             k \in DOMAIN CompatibleMachines(CurrentJob) }
              IN  /\ first \in ids
                  /\ \A m \in ids :
                        \/ CommittedLoad(first) < CommittedLoad(m)
                        \/ /\ CommittedLoad(first) = CommittedLoad(m)
                           /\ MachineIndex(first) <= MachineIndex(m)

\* the second machine of the list is tried first because it carries less,
\* and the first machine has been idle through a downtime window that its
\* load does not count
C23_Witness ==
    /\ policy \in {"batching", "bottleneck"}
    /\ pc = "try"
    /\ last.kind = "candidates"
    /\ Len(machines) = 2
    /\ Len(compatible) = 2
    /\ Head(compatible) = machines[2].machine_id
    /\ 0 < CommittedLoad(machines[2].machine_id)
    /\ CommittedLoad(machines[2].machine_id) < CommittedLoad(machines[1].machine_id)
    /\ CommittedLoad(machines[1].machine_id)
          < Minutes(current_time[machines[1].machine_id])
            - Minutes(constraint.shift_start)

\* C24: on every machine of a schedule that a policy builds, the first
\* assignment appended has setup_time_before = 0 whatever the setup matrix
\* holds, and every later one has setup_time_before =
\* get_setup_time(product of the assignment appended just before it on the
\* machine, its own product), in this order of the arguments.
C24_SetupFromPreviousProduct ==
    \A m \in DOMAIN schedule.assignments :
        LET js == schedule.assignments[m].jobs
        IN  /\ js[1].setup_time_before = 0
            /\ \A i \in 2..Len(js) :
                  js[i].setup_time_before =
                      get_setup_time(constraint, js[i - 1].job.product_type,
                                     js[i].job.product_type)

\* the assignments of every machine are in chronological order in the order
\* they were appended: each starts no earlier than the one before it ends,
\* and no two of them overlap
ChronologicalInsertion(sched) ==
    \A m \in DOMAIN sched.assignments :
        LET js == sched.assignments[m].jobs
        IN  /\ \A i \in 2..Len(js) :
                  Minutes(js[i].start_time) >= Minutes(js[i - 1].end_time)
            /\ \A i, j \in DOMAIN js :
                  i < j => ~ MinutesOverlap(Minutes(js[i].start_time),
                                            Minutes(js[i].end_time),
                                            Minutes(js[j].start_time),
                                            Minutes(js[j].end_time))

\* no machine's time cursor is earlier after the step than before it
CursorsAdvance ==
    \A machine_id \in DOMAIN current_time \cap DOMAIN current_time' :
        Minutes(current_time'[machine_id]) >= Minutes(current_time[machine_id])

\* C25: in a schedule a policy builds, each assignment starts no earlier than
\* the end_time of the assignment appended before it on the same machine, no
\* two assignments of a machine overlap, and no step of the run moves a
\* machine's time cursor backward.
C25_ChronologicalInsertion ==
    [][(pc \in {"run", "try"}) =>
           (ChronologicalInsertion(schedule') /\ CursorsAdvance)]_vars

\* pairs of positions of the appended list that follow each other on a
\* machine: same machine id, and no assignment of that machine between them
ConsecutiveOnMachine(as) ==
    { << i, j >> \in (DOMAIN as) \X (DOMAIN as) :
        /\ i < j
        /\ as[i].machine_id = as[j].machine_id
        /\ \A k \in DOMAIN as :
              (i < k /\ k < j) => as[k].machine_id # as[i].machine_id }

\* the number of product changes met when every machine's assignments are
\* read in the order of their start times
SwitchesByStartTime(sched) ==
    Sum([m \in DOMAIN sched.assignments |->
           SwitchesOfByStartTime(sched.assignments[m].jobs)])

\* C26: calculate_kpis sets num_setup_switches to the number of pairs of
\* assignments that follow each other on a machine in the order they were
\* appended and whose product types differ.
C26_SwitchesInInsertionOrder ==
    (call # NoCall /\ call.op = "calculate_kpis") =>
        call.result.num_setup_switches =
            Cardinality({ p \in ConsecutiveOnMachine(call.appended) :
                            call.appended[p[1]].job.product_type #
                                call.appended[p[2]].job.product_type })

\* three assignments of one machine appended out of chronological order, for
\* which the count differs from the one a scan in start-time order gives
C26_Witness ==
    /\ call # NoCall
    /\ call.op = "calculate_kpis"
    /\ Len(call.appended) = 3
    /\ Len(call.schedule.assignments) = 1
    /\ call.result.num_setup_switches = 2
    /\ SwitchesByStartTime(call.schedule) = 1

\* the machines of the list that some appended assignment names
MachinesInUse(ms, as) ==
    { k \in DOMAIN ms : \E i \in DOMAIN as : as[i].machine_id = ms[k].machine_id }

\* 100 * total_time of a machine of the list: the utilization in the unit of
\* the model, the numerator over the shift duration
UtilizationOf(ms, as, k) ==
    LET OnMachine(a) == a.machine_id = ms[k].machine_id
        own == SelectSeq(as, OnMachine)
    IN  100 * Sum([i \in DOMAIN own |->
                     own[i].job.processing_time + own[i].setup_time_before])

\* C27: calculate_kpis takes the utilization of exactly the machines of the
\* given list that have an assignment; max and min are the largest and the
\* smallest of them and utilization_imbalance is their difference, which is
\* 0 when one machine is in use; when none is, the three figures are 0.
C27_UtilizationOverUsedMachines ==
    (call # NoCall /\ call.op = "calculate_kpis") =>
        LET used == MachinesInUse(call.machines, call.appended)
            U(k) == UtilizationOf(call.machines, call.appended, k)
            kpi == call.result
        IN  /\ used = {} =>
                  /\ kpi.max_machine_utilization = 0
                  /\ kpi.min_machine_utilization = 0
                  /\ kpi.utilization_imbalance = 0
            /\ used # {} =>
                  /\ \E k \in used : kpi.max_machine_utilization = U(k)
                  /\ \A k \in used : U(k) <= kpi.max_machine_utilization
                  /\ \E k \in used : kpi.min_machine_utilization = U(k)
                  /\ \A k \in used : kpi.min_machine_utilization <= U(k)
                  /\ kpi.utilization_imbalance =
                         kpi.max_machine_utilization - kpi.min_machine_utilization
            /\ Cardinality({ call.machines[k].machine_id : k \in used }) = 1 =>
                  kpi.utilization_imbalance = 0

\* a list with a machine that has no assignment and two machines in use with
\* different totals, and an assignment on a machine outside the list
C27_Witness ==
    /\ call # NoCall
    /\ call.op = "calculate_kpis"
    /\ Len(call.machines) = 3
    /\ Cardinality(MachinesInUse(call.machines, call.appended)) = 2
    /\ \E i \in DOMAIN call.appended : call.appended[i].machine_id = "M9"
    /\ call.result.min_machine_utilization > 0
    /\ call.result.utilization_imbalance > 0

\* the raw end of a job on a machine, in minutes: cursor + setup + processing
RawEndMinutes(cursor, setup_time, processing_time) ==
    Minutes(cursor) + setup_time + processing_time

\* the step appends an assignment of the current job to the machine, ending
\* at end_time, and leaves the machine's cursor at end_time
CommitsEndingAt(machine_id, end_time) ==
    LET before == get_machine_jobs(schedule, machine_id)
        after == get_machine_jobs(schedule', machine_id)
    IN  /\ Len(after) = Len(before) + 1
        /\ after[Len(after)].job = CurrentJob
        /\ after[Len(after)].end_time = end_time
        /\ current_time'[machine_id] = end_time

\* a step of Batching or Bottleneck on a candidate machine whose raw end, from
\* the cursor the attempt ends with, is at or after 24:00: unless the machine
\* is rejected for a downtime window, the job is committed with end hour 23
\* and the minute of the raw end, and the cursor is moved there
ClampedCommitOnCandidate ==
    (pc = "try") =>
        LET m == Head(compatible)
            setup_time == SetupTime(policy, constraint, current_product[m],
                                    CurrentJob.product_type)
            cursor == IF last'.advances = 0 THEN current_time[m]
                      ELSE WindowsOf(m)[last'.conflict].end_time
            raw == RawEndMinutes(cursor, setup_time, CurrentJob.processing_time)
        IN  (raw >= 24 * 60 /\ last'.kind # "reject") =>
                CommitsEndingAt(m, time(23, raw % 60))

\* the same for the machine Baseline picks, which it never rejects
ClampedCommitBaseline ==
    (pc = "run" /\ policy = "baseline" /\ idx <= Len(all_jobs_sorted)
        /\ CompatibleMachines(CurrentJob) # << >>) =>
        LET m == BaselineMachine(CurrentJob)
            setup_time == SetupTime(policy, constraint, current_product[m],
                                    CurrentJob.product_type)
            raw == RawEndMinutes(current_time[m], setup_time,
                                 CurrentJob.processing_time)
        IN  raw >= 24 * 60 => CommitsEndingAt(m, time(23, raw % 60))

\* C28: when the raw end of a job (cursor + setup + processing time) is at or
\* after 24:00, the policy does not turn the job down for it: it commits the
\* assignment with end hour 23 and minute raw end modulo 60 and moves the
\* machine's cursor to that time.
C28_ClampedEndCommitted ==
    [][ClampedCommitOnCandidate /\ ClampedCommitBaseline]_vars

IsPrefix(s, t) ==
    /\ Len(s) <= Len(t)
    /\ \A i \in DOMAIN s : s[i] = t[i]

\* the step leaves every appended assignment where and as it was
AssignmentsKept ==
    /\ Len(schedule.assignments) <= Len(schedule'.assignments)
    /\ \A m \in DOMAIN schedule.assignments :
          /\ schedule'.assignments[m].machine_id = schedule.assignments[m].machine_id
          /\ IsPrefix(schedule.assignments[m].jobs, schedule'.assignments[m].jobs)

\* the loop goes through the processing order once, forward
SinglePassStep ==
    /\ idx' \in {idx, idx + 1}
    /\ pc # "start" => all_jobs_sorted' = all_jobs_sorted
    /\ AssignmentsKept
    /\ Len(AllAssignments') >= Len(AllAssignments)
    /\ Len(AllAssignments') <= idx' - 1
    /\ Len(AllAssignments') <= Len(jobs)
    /\ \A j \in DOMAIN jobs : Cardinality(AssignmentsOf(jobs[j].job_id)') <= 1

\* the run is over: it returned its Schedule or left with an exception
RunOver == pc \in {"done", "raised"}

\* when the run is over the loop has been through every job of the input
EveryJobConsidered ==
    /\ IsPermutationOfJobs(all_jobs_sorted)
    /\ idx = Len(all_jobs_sorted) + 1

\* an upper bound of the number of steps the run and its validation by the
\* caller can still take: every job takes at most one step to order its
\* candidates and one attempt per candidate machine
StepsLeft ==
    LET per_job == Len(machines) + 2
        n == Len(jobs)
    IN  CASE pc = "start" -> (n + 1) * per_job + 3
          [] pc = "run" -> (n + 1 - idx) * per_job + 2
          [] pc = "try" -> (n - idx) * per_job + Len(compatible) + 2
          [] pc = "done" -> 1
          [] OTHER -> 0

\* the run has a step to take: the guard of one of its steps holds
CanStep ==
    \/ pc = "start"
    \/ /\ pc = "run"
       /\ idx \in 1..(Len(all_jobs_sorted) + 1)
    \/ /\ pc = "try"
       /\ idx \in 1..Len(all_jobs_sorted)
       /\ compatible # << >>
       /\ CurrentAttempt.outcome \in {"commit", "reject", "raise"}
    \/ pc = "done"

\* every step brings the end of the run nearer
StepsLeftDecrease ==
    /\ StepsLeft' < StepsLeft
    /\ StepsLeft' >= 0

\* a run that is not over has a step to take ("validated": the caller has
\* validated the returned Schedule)
RunGoesOn == pc # "validated" => (RunOver \/ CanStep)

\* C29: a policy run is one pass that terminates: the loop goes forward
\* through the jobs, each input job is considered exactly once by the time
\* the run is over and yields at most one assignment, an appended assignment
\* is never moved, changed or removed, and the number of assignments never
\* decreases and is at most the number of input jobs.
C29_SinglePass ==
    /\ []RunGoesOn
    /\ [][SinglePassStep /\ StepsLeftDecrease /\ (RunOver' => EveryJobConsidered')]_vars

\* current_time, current_loads, current_product and new_schedule of
\* rebalance_schedule before the loop (bottleneck_agent.py 169-180)
RebalanceStart ==
    [schedule |-> EmptySchedule,
     current_time |-> [m \in MachineIds |-> constraint.shift_start],
     current_loads |-> [m \in MachineIds |-> 0],
     current_product |-> [m \in MachineIds |-> None],
     raised |-> FALSE]

RECURSIVE RebalanceJob(_, _, _)
\* the candidate loop of rebalance_schedule for one job (bottleneck_agent.py
\* 191-261), from the maps st of the call
RebalanceJob(st, job, candidates) ==
    IF candidates = << >> THEN st
    ELSE LET machine_id == Head(candidates)
             r == Attempt("bottleneck", constraint, job, MachineById(machine_id),
                          st.current_time[machine_id], st.current_product[machine_id])
         IN  CASE r.outcome = "commit" ->
                    [st EXCEPT
                       !.schedule = add_assignment(st.schedule,
                                        JobAssignment(job, machine_id, r.start_time,
                                                      r.end_time, r.setup_time)),
                       !.current_time[machine_id] = r.end_time,
                       !.current_product[machine_id] = job.product_type,
                       !.current_loads[machine_id] =
                           @ + job.processing_time + r.setup_time]
               [] r.outcome = "reject" ->
                    RebalanceJob([st EXCEPT !.current_time[machine_id] = r.cursor],
                                 job, Tail(candidates))
               [] OTHER -> [st EXCEPT !.raised = TRUE]

RECURSIVE RebalanceJobs(_, _)
\* the job loop of rebalance_schedule (bottleneck_agent.py 182-261)
RebalanceJobs(st, remaining_jobs) ==
    IF remaining_jobs = << >> \/ st.raised THEN st
    ELSE RebalanceJobs(RebalanceJob(st, Head(remaining_jobs),
                                    CandidateOrder(Head(remaining_jobs),
                                                   st.current_loads)),
                       Tail(remaining_jobs))

\* the assignments rebalance_schedule builds from the job list, the machines
\* and the constraint alone, whatever Schedule it is given
RebalancedAssignments ==
    RebalanceJobs(RebalanceStart, BottleneckOrder(jobs)).schedule.assignments

ReturnsSupplied(i) ==
    /\ call.result = call.candidates[i].schedule
    /\ call.result.assignments = call.supplied[i].schedule.assignments
    /\ call.result.kpis = call.supplied[i].schedule.kpis
    /\ \A j \in DOMAIN call.supplied \ {i} : call.candidates[j] = call.supplied[j]

\* C38: select_best_schedule raises on an empty candidate list, and for every
\* non-empty list it returns one of the supplied Schedules with assignments
\* and KPI unchanged, the other candidates left entirely unchanged.
C38_ReturnsSuppliedCandidate ==
    call.op = "select_best_schedule" =>
        /\ Len(call.candidates) = Len(call.supplied)
        /\ call.supplied = << >> => HasRaised(call.result)
        /\ call.supplied # << >> => \E i \in DOMAIN call.supplied : ReturnsSupplied(i)

\* the same for the lists in which at least one candidate carries a KPI
C38_WithAKpi ==
    (/\ call.op = "select_best_schedule"
     /\ \E i \in DOMAIN call.supplied : call.supplied[i].schedule.kpis # NoKPI) =>
        \E i \in DOMAIN call.supplied :
            /\ ReturnsSupplied(i)
            /\ call.result.explanation = FinalRecommendation

\* a non-empty list without any KPI: the call leaves with IndexError
C38_NoKpiRaises ==
    /\ call.op = "select_best_schedule"
    /\ call.supplied # << >>
    /\ call.result = Raised("IndexError")


\* the node of the workflow the run of optimize is in: 1 analyze_request,
\* 2 create_batching_schedule, 3 create_bottleneck_schedule,
\* 4 validate_schedules, 5 select_best, 6 END
NodeIndex ==
    CASE pc = "analyze_request" -> 1
      [] pc = "validate_schedules" -> 4
      [] pc = "select_best" -> 5
      [] pc = "END" -> 6
      [] OTHER -> IF policy = "batching" THEN 2 ELSE 3

\* a step stays in its node or goes on to the next one, a node is started
\* only by coming from the node before it, and retry_count is left alone
LinearStep ==
    /\ NodeIndex' \in {NodeIndex, NodeIndex + 1}
    /\ (pc' = "start" /\ pc # "start") => NodeIndex' = NodeIndex + 1
    /\ state'.retry_count = state.retry_count

\* the run is inside a node whose agent raised: optimize does not catch the
\* exception and none of the remaining nodes executes
NodeRaised == pc = "raised"

PipelineEnd ==
    /\ state.retry_count = 0
    /\ pc = "END" => state.status \in {"completed", "failed"}

\* C31: a run of optimize executes analyze_request, create_batching_schedule,
\* create_bottleneck_schedule, validate_schedules and select_best once each,
\* in this order, and then ends with status "completed" or "failed"; no node
\* is repeated, whatever the validator found, and retry_count stays 0.
C31_LinearPipeline ==
    /\ [](PipelineEnd /\ ~NodeRaised)
    /\ [][LinearStep]_vars

\* the same without the promise that every node executes
C31_LinearUnlessRaised ==
    /\ []PipelineEnd
    /\ [][LinearStep]_vars

\* a pipeline that went through all five nodes although the validator
\* rejected both candidates
C31_FailedAtEnd ==
    /\ pc = "END"
    /\ state.status = "failed"
    /\ state.batching_violations # << >>
    /\ state.bottleneck_violations # << >>

\* a pipeline left by an exception inside create_bottleneck_schedule
C31_RaisedInThirdNode ==
    /\ NodeRaised
    /\ policy = "bottleneck"
    /\ state.batching_schedule # NoSchedule


\* the position of a job in the processing order and in the caller's list
ProcessingPosition(job_id) ==
    CHOOSE i \in DOMAIN all_jobs_sorted : all_jobs_sorted[i].job_id = job_id

InputPosition(job_id) == CHOOSE i \in DOMAIN jobs : jobs[i].job_id = job_id

\* a Baseline run that has fixed its processing order
BaselineRunning == policy = "baseline" /\ pc # "start"

\* the loop works the processing order off from its first job on: the jobs
\* assigned are among those already taken, and each machine's list holds its
\* jobs in processing order
ProcessedInOrder ==
    /\ IsPermutationOfJobs(all_jobs_sorted)
    /\ \A k \in DOMAIN AllAssignments :
          ProcessingPosition(AllAssignments[k].job.job_id) <= idx
    /\ \A m \in DOMAIN schedule.assignments :
          LET on == schedule.assignments[m].jobs
          IN  \A k, l \in DOMAIN on :
                k < l => ProcessingPosition(on[k].job.job_id)
                            < ProcessingPosition(on[l].job.job_id)

RushBeforeNormal ==
    \A a, b \in DOMAIN all_jobs_sorted :
        (is_rush(all_jobs_sorted[b]) /\ ~ is_rush(all_jobs_sorted[a])) => b < a

C33_RushThenInputOrder ==
    BaselineRunning =>
        /\ ProcessedInOrder
        /\ RushBeforeNormal
        /\ \A a, b \in DOMAIN all_jobs_sorted :
              (/\ a < b
               /\ all_jobs_sorted[a].priority = all_jobs_sorted[b].priority) =>
                  InputPosition(all_jobs_sorted[a].job_id)
                      < InputPosition(all_jobs_sorted[b].job_id)


\* a Batching run that has fixed its processing order
BatchingRunning == policy = "batching" /\ pc # "start"

\* C34: the Batching policy processes every rush job before every normal
\* job, also when the rush job belongs to a product group that comes later
\* than the group of the normal job.
C34_RushBeforeNormalAcrossGroups ==
    BatchingRunning =>
        /\ ProcessedInOrder
        /\ RushBeforeNormal

\* what the flattening keeps: the groups stand one after the other in the
\* order of their first job in the input, and rush comes first inside a group
C34_RushFirstInsideGroup ==
    BatchingRunning =>
        /\ ProcessedInOrder
        /\ \A a, b \in DOMAIN all_jobs_sorted :
              LET x == all_jobs_sorted[a]
                  y == all_jobs_sorted[b]
              IN  /\ (x.product_type = y.product_type /\ is_rush(y) /\ ~ is_rush(x))
                        => b < a
                  /\ (a < b /\ x.product_type # y.product_type) =>
                        \E i \in DOMAIN jobs :
                            /\ jobs[i].product_type = x.product_type
                            /\ \A j \in DOMAIN jobs :
                                  jobs[j].product_type = y.product_type => i < j

\* a normal job of the first group assigned before the rush job of the
\* second group
C34_NormalBeforeRush ==
    /\ policy = "batching"
    /\ pc = "done"
    /\ jobs = << J2, J4 >>
    /\ all_jobs_sorted = << J2, J4 >>
    /\ Len(AllAssignments) = 2


\* the step rejected a candidate machine for the current job
RejectStep == last'.kind = "reject" /\ (last # last' \/ compatible # compatible')

\* C35: when Batching or Bottleneck reject a candidate machine for a job,
\* the machine's time cursor, current product and load are what they were
\* before the attempt.
C35_RejectLeavesMachineState ==
    [][RejectStep =>
          /\ current_time'[last'.machine_id] = current_time[last'.machine_id]
          /\ current_product'[last'.machine_id] = current_product[last'.machine_id]
          /\ machine_loads'[last'.machine_id] = machine_loads[last'.machine_id]]_vars

\* what a rejection leaves alone: the current product and the load of the
\* machine, the other machines and the schedule; the cursor of the rejected
\* machine stands at the end of a downtime window of that machine, later
\* than before
C35_RejectKeepsAllButCursor ==
    [][RejectStep =>
          LET m == last'.machine_id
          IN  /\ current_product' = current_product
              /\ machine_loads' = machine_loads
              /\ schedule' = schedule
              /\ \A o \in DOMAIN current_time \ {m} :
                    current_time'[o] = current_time[o]
              /\ TimeGT(current_time'[m], current_time[m])
              /\ \E d \in DOMAIN MachineById(m).downtime_windows :
                    current_time'[m] = MachineById(m).downtime_windows[d].end_time]_vars

\* a machine that rejected a job and has its cursor behind the shift start
\* without any assignment
C35_CursorMovedByRejection ==
    /\ policy \in {"batching", "bottleneck"}
    /\ last.kind = "reject"
    /\ idx > 1
    /\ get_machine_jobs(schedule, last.machine_id) = << >>
    /\ TimeGT(current_time[last.machine_id], constraint.shift_start)


\* C36: create_batched_schedule and rebalance_schedule complete without
\* raising for every input of well-formed jobs, machines and constraint, and
\* the proposed start they build is always a valid time of day, also when
\* the cursor plus the setup time reaches or passes 24:00.
C36_ProposedStartAlwaysValid ==
    policy \in {"batching", "bottleneck"} =>
        /\ pc # "raised"
        /\ pc = "try" => CurrentAttempt.start_time # ValueError

\* the run left with ValueError: the first proposed start of the job, the
\* cursor plus the setup time, is at or past 24:00
C36_RaisedAtMidnight ==
    /\ policy \in {"batching", "bottleneck"}
    /\ pc = "raised"
    /\ last.kind = "raise"
    /\ last.advances = 0
    /\ Minutes(last.before) + SetupTime(policy, constraint,
                                        current_product[last.machine_id],
                                        CurrentJob.product_type) >= 24 * 60


\* validate_schedule was called on the schedule and accepted it
Accepted == pc \in {"validated", "checked"} /\ is_valid(violations)

\* C37: every schedule that validate_schedule accepts has each assignment on
\* a machine that is in the given machine list, is capable of the job's
\* product type and is listed in the job's machine_options.
C37_AcceptedAssignmentsCompatible ==
    Accepted =>
        \A k \in DOMAIN AllAssignments :
            LET a == AllAssignments[k]
            IN  /\ a.machine_id \in MachineIds
                /\ can_produce(MachineById(a.machine_id), a.job.product_type)
                /\ can_run_on(a.job, a.machine_id)

\* what the validator does guarantee: an assignment on a machine of the list
\* is on a machine capable of the product type
C37_ListedMachineCapable ==
    Accepted =>
        \A k \in DOMAIN AllAssignments :
            LET a == AllAssignments[k]
            IN  a.machine_id \in MachineIds =>
                    can_produce(MachineById(a.machine_id), a.job.product_type)

\* an accepted schedule with J1 on a machine that is in no list
C37_AcceptedOnAbsentMachine ==
    /\ Accepted
    /\ \E k \in DOMAIN AllAssignments :
          /\ AllAssignments[k].job = J1
          /\ AllAssignments[k].machine_id = "M9"

\* an accepted schedule with J3, whose machine_options are M1 only, on M2
C37_AcceptedOutsideOptions ==
    /\ Accepted
    /\ \E k \in DOMAIN AllAssignments :
          /\ AllAssignments[k].job = J3
          /\ AllAssignments[k].machine_id = "M2"

====
